---- MODULE Spec2Model ----
(***************************************************************************)
(* Swift code generation of apollo-tooling (packages/apollo-codegen-swift, *)
(* src/codeGeneration.ts).                                                 *)
(*                                                                         *)
(* The model of the generator has two layers.  The generator layer is generateSource and    *)
(* the SwiftAPIGenerator methods it calls: a run walks the compiler        *)
(* context and appends declarations to the generator's output.  A          *)
(* declaration is a record that keeps what the method prints: its header   *)
(* and, in order, its members.  The emitted-code layer gives the printed   *)
(* Swift members their meaning (a switch takes its first matching case, a  *)
(* getter returns what its statements return) so that the behaviour of the *)
(* generated accessors, enums and input objects is computed from the       *)
(* declaration the generator emitted.                                      *)
(*                                                                         *)
(* Results of collaborators that live outside codeGeneration.ts            *)
(* (typeCaseForSelectionSet, collectAndMergeFields,                        *)
(* collectFragmentsReferenced) are part of the input: a selection set      *)
(* carries its type case, a variant its merged fields, an operation the    *)
(* ordered set of fragments it references.                                 *)
(*                                                                         *)
(* The last part models the service check command (ServiceCheck.run and    *)
(* validateHistoricParams).                                                *)
(***************************************************************************)
EXTENDS Integers, Sequences, FiniteSets, TLC

VARIABLES
  operations,             \* context.operations, in Object.values order
  fragments,              \* context.fragments, in Object.values order
  typesUsed,              \* context.typesUsed
  options,                \* context.options
  outputIndividualFiles,  \* generateSource's second argument
  only,                   \* generateSource's third argument (<<>> when absent)
  output,                 \* what the generator has printed so far
  pc,                     \* index of the next call generateSource makes
  thrown,                 \* message of the error that ended the run ("" if none)
  returned,               \* TRUE once generateSource has returned the generator
  enumType,               \* the GraphQL enum whose emitted Swift enum is exercised
  lhs, rhs,               \* two values of the emitted enum (<<>> while unset)
  decodedFrom,            \* <<s>> when lhs is the result of init?(rawValue: s)
  rawOut,                 \* <<s>> once lhs.rawValue was read and returned s
  equal,                  \* "true" or "false" once lhs == rhs was evaluated
  viewSel,                \* the selection set whose emitted struct is exercised
  viewDecl,               \* the struct declaration emitted for viewSel
  resultMap,              \* the container (ResultMap) of a value of that struct
  narrowed,               \* the last read of a narrowing accessor
  builtBy,                \* <<b>> when resultMap was built by the initializer b
  fragRead,               \* the last read of a fragment accessor
  assigned,               \* the last assignment to an accessor
  fieldsUnderTest,        \* the fields whose emitted accessors are exercised
  fieldMap,               \* the container of a value of the struct they are in
  written,                \* per field, <<v>> once v was assigned to its accessor
  readBack,               \* the last read of a field accessor
  config,                 \* the project configuration of ServiceCheck.run
  flags,                  \* the parsed flags of the command
  ctx,                    \* the task context and the task's locals
  engineCalls,                  \* the calls made to project, git and engine, in order
  logged,                \* what the command logged and tabulated, in order
  runPc,                  \* the step ServiceCheck.run is at
  runError,               \* message of the error that ended the run ("" if none)
  exited,                 \* TRUE once this.exit() was called
  historic                \* <<r>> once validateHistoricParams gave or threw r

genVars == <<operations, fragments, typesUsed, options, outputIndividualFiles,
             only, output, pc, thrown, returned>>

enumVars == <<enumType, lhs, rhs, decodedFrom, rawOut, equal>>

viewVars == <<viewSel, viewDecl, resultMap, narrowed, builtBy, fragRead, assigned>>

fieldVars == <<fieldsUnderTest, fieldMap, written, readBack>>

checkVars == <<config, flags, ctx, engineCalls, logged, runPc, runError, exited,
               historic>>

vars == <<genVars, enumVars, viewVars, fieldVars, checkVars>>

(***************************************************************************)
(* Bounds of the model.                                                    *)
(***************************************************************************)
MaxOperations == 2
MaxFragments == 1
MaxVariables == 1
MaxDepth == 1
MaxEnumValues == 2
MaxListLen == 2
MaxChanges == 2

(***************************************************************************)
(* Sequence helpers.                                                       *)
(***************************************************************************)
Range(s) == {s[i] : i \in 1..Len(s)}

Contains(s, x) == \E i \in 1..Len(s) : s[i] = x

\* The members of the declaration d that are of the given kind, in order.
MembersOfKind(d, kind) == SelectSeq(d.members, LAMBDA m : m.kind = kind)

RECURSIVE Concat(_)
Concat(ss) == IF ss = <<>> THEN <<>> ELSE Head(ss) \o Concat(Tail(ss))

\* A JavaScript Set keeps insertion order and ignores a value it already holds.
SetAdd(acc, x) == IF Contains(acc, x) THEN acc ELSE Append(acc, x)

RECURSIVE SetAddAll(_, _)
SetAddAll(acc, xs) ==
  IF xs = <<>> THEN acc ELSE SetAddAll(SetAdd(acc, Head(xs)), Tail(xs))

\* The duplicate-free sequences over the set S, of length at most n.
RECURSIVE DistinctSeqs(_, _)
DistinctSeqs(S, n) ==
  IF n = 0 THEN {<<>>}
  ELSE LET shorter == DistinctSeqs(S, n - 1)
       IN  shorter \cup
           UNION {{Append(s, x) : x \in S \ Range(s)} : s \in shorter}

(***************************************************************************)
(* GraphQL types: a named type under a stack of NonNull and List           *)
(* modifiers.                                                              *)
(***************************************************************************)
Named(n) == [kind |-> "Named", name |-> n]
NonNullOf(t) == [kind |-> "NonNull", ofType |-> t]
ListOf(t) == [kind |-> "List", ofType |-> t]

isNonNullType(t) == t.kind = "NonNull"
isListType(t) == t.kind = "List"

\* Int, Int!, [Int], [Int!], [Int]!, [Int!]!
VariableTypes ==
  LET T == Named("Int")
  IN  {T, NonNullOf(T), ListOf(T), ListOf(NonNullOf(T)),
       NonNullOf(ListOf(T)), NonNullOf(ListOf(NonNullOf(T)))}

(***************************************************************************)
(* The compiler context: selection sets with their type case, fragments,   *)
(* operations.                                                             *)
(***************************************************************************)
FilePaths == {<<"queries", "a.graphql">>, <<"queries", "b.graphql">>}

\* path.basename
Basename(p) == p[2]

OperationTypes == {"query", "mutation", "subscription", "schema"}

\* A field as propertyFromField hands it to the generator: isComposite is
\* isCompositeType(getNamedType(type)), isOptional holds for a conditional
\* field and for one whose type is not NonNull.
MkField(key, type, isConditional, isComposite, sel) ==
  [responseKey |-> key, isComposite |-> isComposite, selectionSet |-> sel,
   type |-> type, isConditional |-> isConditional,
   isOptional |-> isConditional \/ ~isNonNullType(type)]

ScalarField(key) ==
  MkField(key, NonNullOf(Named("String")), FALSE, FALSE, <<>>)

CompositeField(key, sel) ==
  MkField(key, Named("Character"), FALSE, TRUE, <<sel>>)

\* A variant with what the collaborators return for it: fields is
\* collectAndMergeFields(variant); properties is <<ps>> when
\* helpers.propertiesForSelectionSet(variant) returns the properties ps (the
\* fields other than __typename) and <<>> when it returns undefined.
MkVariant(types, fields) ==
  [possibleTypes |-> types, fields |-> fields, fragmentSpreads |-> <<>>,
   properties |-> <<SelectSeq(fields, LAMBDA f : f.responseKey # "__typename")>>]

\* A spread of fragment inside a selection set whose possible types are
\* parentTypes: the spread's selection set has the fragment's possible types
\* that the enclosing selection set can have.
MkFragmentSpread(fragment, parentTypes) ==
  [fragmentName |-> fragment.fragmentName,
   selectionSet |->
     [possibleTypes |->
        SelectSeq(fragment.selectionSet.possibleTypes,
                  LAMBDA t : Contains(parentTypes, t))]]

\* The same selection set with the fragment spreads spreads, which the type
\* case puts on the default and on every variant.
WithFragmentSpreads(sel, spreads) ==
  [sel EXCEPT
     !.typeCase.default.fragmentSpreads = spreads,
     !.typeCase.variants =
        [i \in 1..Len(@) |-> [@[i] EXCEPT !.fragmentSpreads = spreads]],
     !.typeCase.remainder =
        [i \in 1..Len(@) |-> [@[i] EXCEPT !.fragmentSpreads = spreads]]]

\* The same variant when propertiesForSelectionSet returns undefined for it.
WithoutProperties(variant) == [variant EXCEPT !.properties = <<>>]

\* The same selection set when propertiesForSelectionSet returns undefined
\* for the variants of its type case.
SelectionSetWithoutProperties(sel) ==
  [sel EXCEPT
     !.typeCase.default = WithoutProperties(@),
     !.typeCase.variants = [i \in 1..Len(@) |-> WithoutProperties(@[i])],
     !.typeCase.remainder = [i \in 1..Len(@) |-> WithoutProperties(@[i])]]

\* The concrete types of pt that no variant of vts covers, in pt's order.
Uncovered(pt, vts) ==
  SelectSeq(pt, LAMBDA t : \A i \in 1..Len(vts) : ~Contains(vts[i], t))

\* A selection set whose possible types are pt, whose unconditional fields are
\* fs and which has one type condition per entry of vts (each a list of
\* concrete types), as typeCaseForSelectionSet analyses it: the variants carry
\* the default fields plus their own, the remainder the uncovered types.
MkSelectionSet(pt, fs, vts) ==
  [possibleTypes |-> pt,
   typeCase |->
     [default |-> MkVariant(pt, fs),
      variants |->
        [i \in 1..Len(vts) |->
           MkVariant(vts[i], Append(fs, ScalarField("primaryFunction")))],
      remainder |->
        IF vts = <<>> \/ Uncovered(pt, vts) = <<>> THEN <<>>
        ELSE <<MkVariant(Uncovered(pt, vts), fs)>>]]

PossibleTypeLists == {<<"Human", "Droid">>, <<"Droid">>}

\* The lists of type conditions over pt: duplicate-free lists of non-empty
\* strict subsets of pt (here single concrete types).
TypeConditionLists(pt) ==
  IF Len(pt) < 2 THEN {<<>>}
  ELSE DistinctSeqs({<<pt[i]>> : i \in 1..Len(pt)}, Len(pt))

RECURSIVE SelectionSets(_)
SelectionSets(d) ==
  LET fieldLists ==
        {<<ScalarField("name")>>} \cup
        (IF d = 0 THEN {}
         ELSE {<<ScalarField("name"), CompositeField("friend", sub)>> :
                 sub \in SelectionSets(d - 1)})
  IN  UNION {{MkSelectionSet(pt, fs, vts) :
                fs \in fieldLists, vts \in TypeConditionLists(pt)} :
             pt \in PossibleTypeLists}

\* The root selection set of an operation without type conditions.
BaseSelectionSet == MkSelectionSet(<<"Query">>, <<ScalarField("name")>>, <<>>)

MkOperation(name, type, path, source, variables, refs, sel) ==
  [operationName |-> name, operationType |-> type, filePath |-> path,
   source |-> source, variables |-> variables,
   fragmentsReferenced |-> refs, selectionSet |-> sel, operationId |-> <<>>]

MkFragment(name, path, source, sel) ==
  [fragmentName |-> name, filePath |-> path, source |-> source,
   selectionSet |-> sel]

EnumA == [kind |-> "enum", name |-> "Episode",
          values |-> <<[name |-> "NEWHOPE", value |-> "NEWHOPE"],
                       [name |-> "JEDI", value |-> "JEDI"]>>]

InputA == [kind |-> "input", name |-> "ReviewInput",
           fields |-> <<[name |-> "stars", type |-> NonNullOf(Named("Int"))],
                        [name |-> "commentary", type |-> Named("String")]>>]

ScalarA == [kind |-> "scalar", name |-> "Date"]

\* Names for the entities of a context, by position.
OperationNames == <<"Hero", "Search", "Review", "Starship">>
FragmentNames == <<"HeroDetails", "DroidDetails", "HumanDetails">>
VariableNames == <<"episode", "ids", "first">>

(***************************************************************************)
(* Names the helpers derive (helpers.ts).  Only their being distinct for   *)
(* distinct arguments matters here.                                        *)
(***************************************************************************)
operationClassName(name) == name
structNameForFragmentName(name) == <<"Fragment", name>>
structNameForVariant(variant) == <<"As">> \o variant.possibleTypes
structNameForPropertyName(key) == <<"Field", key>>

\* helpers.propertyFromVariant: the property of a variant in its default struct.
propertyFromVariant(variant) ==
  [propertyName |-> structNameForVariant(variant),
   typeName |-> <<"Optional", structNameForVariant(variant)>>,
   structName |-> structNameForVariant(variant),
   possibleTypes |-> variant.possibleTypes,
   fields |-> variant.fields,
   fragmentSpreads |-> variant.fragmentSpreads,
   properties |-> variant.properties]

(***************************************************************************)
(* fileHeader                                                              *)
(***************************************************************************)
fileHeader == [kind |-> "fileHeader", imports |-> <<"Apollo">>]

(***************************************************************************)
(* parametersForProperties: one parameter per property, "= nil" appended   *)
(* for an optional one.                                                    *)
(***************************************************************************)
parametersForProperties(properties) ==
  [i \in 1..Len(properties) |->
     [name |-> properties[i].propertyName,
      type |-> properties[i].type,
      default |-> IF properties[i].isOptional THEN "nil" ELSE ""]]

\* Mutant: only the outermost modifier decides.
isOptionalVariableOutermostOnly(type) == ~isNonNullType(type)

\* Lines 253-256: whether the variable's parameter is optional.
isOptionalVariable(type) ==
  ~(isNonNullType(type) \/ (isListType(type) /\ isNonNullType(type.ofType)))

propertiesForVariables(variables) ==
  [i \in 1..Len(variables) |->
     [name |-> variables[i].name,
      propertyName |-> variables[i].name,
      type |-> variables[i].type,
      isOptional |-> isOptionalVariable(variables[i].type)]]

\* propertyDeclarations: one stored property per property.
propertyDeclarations(properties) ==
  [i \in 1..Len(properties) |->
     [kind |-> "storedProperty",
      name |-> properties[i].propertyName,
      type |-> properties[i].type]]

initializerDeclarationForProperties(properties) ==
  [kind |-> "init",
   parameters |-> parametersForProperties(properties),
   assigns |-> [i \in 1..Len(properties) |-> properties[i].propertyName]]

(***************************************************************************)
(* propertyDeclarationForVariant: the narrowing accessor.  Its getter      *)
(* tests the container's __typename against the static possibleTypes of    *)
(* the struct it names and wraps the same resultMap; its setter ignores    *)
(* nil and replaces the resultMap otherwise.                               *)
(***************************************************************************)
\* Mutant: the guard names no struct, so possibleTypes is the enclosing
\* struct's own.
propertyDeclarationForVariantUnqualifiedGuard(variant) ==
  [kind |-> "narrowing",
   propertyName |-> variant.propertyName,
   typeName |-> variant.typeName,
   get |-> [guardStruct |-> <<"Self">>,
            guardProperty |-> "__typename",
            onMiss |-> "nil",
            wrapStruct |-> variant.structName,
            wrapOver |-> "resultMap"],
   set |-> [onNil |-> "return", assign |-> "resultMap = newValue.resultMap"]]

\* Mutant: the setter merges the new value's container into the container.
propertyDeclarationForVariantMerging(variant) ==
  [kind |-> "narrowing",
   propertyName |-> variant.propertyName,
   typeName |-> variant.typeName,
   get |-> [guardStruct |-> variant.structName,
            guardProperty |-> "__typename",
            onMiss |-> "nil",
            wrapStruct |-> variant.structName,
            wrapOver |-> "resultMap"],
   set |-> [onNil |-> "return", assign |-> "resultMap += newValue.resultMap"]]

propertyDeclarationForVariant(variant) ==
  [kind |-> "narrowing",
   propertyName |-> variant.propertyName,
   typeName |-> variant.typeName,
   get |-> [guardStruct |-> variant.structName,
            guardProperty |-> "__typename",
            onMiss |-> "nil",
            wrapStruct |-> variant.structName,
            wrapOver |-> "resultMap"],
   set |-> [onNil |-> "return", assign |-> "resultMap = newValue.resultMap"]]

\* isList (apollo-codegen-core/utilities/graphql): a list type, or a
\* non-null list type.
isList(type) ==
  isListType(type) \/ (isNonNullType(type) /\ isListType(type.ofType))

\* mapExpressionForType (helpers): the expression that converts a value of
\* the field's type element by element, given here as the layers it maps
\* through from the outside in: "optional" for a nullable layer (and for a
\* conditional field), "list" for a list layer.
RECURSIVE mapExpressionForType(_, _)
mapExpressionForType(type, isConditional) ==
  IF isNonNullType(type)
  THEN (IF isConditional THEN <<"optional">> ELSE <<>>)
       \o (IF isListType(type.ofType)
           THEN <<"list">> \o mapExpressionForType(type.ofType.ofType, FALSE)
           ELSE <<>>)
  ELSE <<"optional">>
       \o (IF isListType(type)
           THEN <<"list">> \o mapExpressionForType(type.ofType, FALSE)
           ELSE <<>>)

\* Mutant: the setter of a composite field stores the struct itself.
propertyDeclarationForFieldStoringStruct(field) ==
  LET structName == structNameForPropertyName(field.responseKey)
      cast == IF field.isOptional THEN "as?" ELSE "as!"
      layers ==
        IF ~field.isComposite THEN <<>>
        ELSE IF isList(field.type)
             THEN mapExpressionForType(field.type, field.isConditional)
             ELSE IF field.isOptional THEN <<"optional">> ELSE <<>>
  IN  [kind |-> "property",
       responseKey |-> field.responseKey,
       isComposite |-> field.isComposite,
       get |-> [key |-> field.responseKey, cast |-> cast, layers |-> layers,
                wrap |-> IF field.isComposite THEN structName ELSE <<>>],
       set |-> [key |-> field.responseKey, layers |-> layers,
                unwrap |-> FALSE]]

\* Lines 682-794.  The getter reads resultMap[responseKey], casts it and, for
\* a composite field, wraps every map in the nested struct; the setter
\* stores under the same key, for a composite field after replacing every
\* struct by its resultMap.
propertyDeclarationForField(field) ==
  LET structName == structNameForPropertyName(field.responseKey)
      cast == IF field.isOptional THEN "as?" ELSE "as!"
      layers ==
        IF ~field.isComposite THEN <<>>
        ELSE IF isList(field.type)
             THEN mapExpressionForType(field.type, field.isConditional)
             ELSE IF field.isOptional THEN <<"optional">> ELSE <<>>
  IN  [kind |-> "property",
       responseKey |-> field.responseKey,
       isComposite |-> field.isComposite,
       get |-> [key |-> field.responseKey, cast |-> cast, layers |-> layers,
                wrap |-> IF field.isComposite THEN structName ELSE <<>>],
       set |-> [key |-> field.responseKey, layers |-> layers,
                unwrap |-> field.isComposite]]

(***************************************************************************)
(* structDeclarationForSelectionSet and structDeclarationForVariant.  Each *)
(* returns the sequence of declarations it prints.                         *)
(***************************************************************************)
typeCaseInitialization(typeCase) ==
  [kind |-> "selections",
   variants |->
     Concat([i \in 1..Len(typeCase.variants) |->
               [j \in 1..Len(typeCase.variants[i].possibleTypes) |->
                  [type |-> typeCase.variants[i].possibleTypes[j],
                   structName |-> structNameForVariant(typeCase.variants[i])]]])]

selectionSetInitialization(variant) ==
  [kind |-> "selections", variants |-> <<>>]

\* Lines 655-680: "responseKey": value, a composite value converted to its
\* resultMap through the layers of the field's type.
propertyAssignmentForField(field) ==
  [key |-> field.responseKey,
   from |-> field.responseKey,
   layers |-> IF field.isComposite
              THEN mapExpressionForType(field.type, field.isConditional)
              ELSE <<>>,
   unwrap |-> field.isComposite]

\* One initializer or factory: it returns
\*   structName(unsafeResultMap: ["__typename": possibleType, assignments])
initializerFor(kind, name, structName, possibleType, properties) ==
  [kind |-> kind,
   name |-> name,
   returns |-> structName,
   parameters |->
     parametersForProperties(
       [i \in 1..Len(properties) |->
          [propertyName |-> properties[i].responseKey,
           type |-> properties[i].type,
           isOptional |-> properties[i].isOptional]]),
   typename |-> possibleType,
   assignments |->
     [i \in 1..Len(properties) |-> propertyAssignmentForField(properties[i])]]

\* Mutant: every factory stores the variant's first possible type.
initializersForVariantFirstType(variant, namespace, useInitializerIfPossible, structName) ==
  IF useInitializerIfPossible /\ Len(variant.possibleTypes) = 1
  THEN IF variant.properties = <<>> THEN <<>>
       ELSE <<initializerFor("initializer", <<"init">>, structName,
                             variant.possibleTypes[1], variant.properties[1])>>
  ELSE Concat([j \in 1..Len(variant.possibleTypes) |->
                 IF variant.properties = <<>> THEN <<>>
                 ELSE <<initializerFor(
                          "factory", <<"make", variant.possibleTypes[j]>>,
                          structName, variant.possibleTypes[1],
                          variant.properties[1])>>])

\* Lines 586-653; structName is this.scope.typeName, the struct being
\* declared.
initializersForVariant(variant, namespace, useInitializerIfPossible, structName) ==
  IF useInitializerIfPossible /\ Len(variant.possibleTypes) = 1
  THEN IF variant.properties = <<>> THEN <<>>
       ELSE <<initializerFor("initializer", <<"init">>, structName,
                             variant.possibleTypes[1], variant.properties[1])>>
  ELSE Concat([j \in 1..Len(variant.possibleTypes) |->
                 IF variant.properties = <<>> THEN <<>>
                 ELSE <<initializerFor(
                          "factory", <<"make", variant.possibleTypes[j]>>,
                          structName, variant.possibleTypes[j],
                          variant.properties[1])>>])

\* Mutant: the remainder gets no factories.
initializersForTypeCaseWithoutRemainder(typeCase, structName) ==
  IF Len(typeCase.variants) = 0
  THEN initializersForVariant(typeCase.default, <<>>, TRUE, structName)
  ELSE Concat([k \in 1..Len(typeCase.variants) |->
                 initializersForVariant(
                   typeCase.variants[k],
                   structNameForVariant(typeCase.variants[k]),
                   FALSE, structName)])

\* Lines 567-584.
initializersForTypeCase(typeCase, structName) ==
  IF Len(typeCase.variants) = 0
  THEN initializersForVariant(typeCase.default, <<>>, TRUE, structName)
  ELSE LET list == typeCase.remainder \o typeCase.variants
       IN  Concat([k \in 1..Len(list) |->
                     initializersForVariant(
                       list[k],
                       IF k <= Len(typeCase.remainder)
                       THEN <<>> ELSE structNameForVariant(list[k]),
                       FALSE, structName)])

\* Mutant: conditional only when no possible type of the variant is one of
\* the fragment's.
fragmentSpreadIsConditionalEvery(variant, fragmentSpread) ==
  \A i \in 1..Len(variant.possibleTypes) :
    ~Contains(fragmentSpread.selectionSet.possibleTypes,
              variant.possibleTypes[i])

\* Lines 461-463.
fragmentSpreadIsConditional(variant, fragmentSpread) ==
  \E i \in 1..Len(variant.possibleTypes) :
    ~Contains(fragmentSpread.selectionSet.possibleTypes,
              variant.possibleTypes[i])

\* helpers.propertyFromFragmentSpread: the accessor's name and the name of
\* the fragment's struct.
propertyFromFragmentSpread(fragmentSpread, isConditional) ==
  [propertyName |-> fragmentSpread.fragmentName,
   structName |-> structNameForFragmentName(fragmentSpread.fragmentName),
   isConditional |-> isConditional]

\* Lines 505-543: one accessor of the Fragments struct.
fragmentAccessor(fragmentSpread) ==
  [kind |-> "fragmentAccessor",
   propertyName |-> fragmentSpread.propertyName,
   structName |-> fragmentSpread.structName,
   isConditional |-> fragmentSpread.isConditional,
   get |-> [guardStruct |-> IF fragmentSpread.isConditional
                            THEN fragmentSpread.structName ELSE <<>>,
            guardKey |-> "__typename",
            onMiss |-> "nil",
            wrapStruct |-> fragmentSpread.structName,
            wrapOver |-> "resultMap"],
   set |-> [onNil |-> IF fragmentSpread.isConditional THEN "return" ELSE "",
            assign |-> "resultMap += newValue.resultMap"]]

\* Lines 473-545: the fragments property and the Fragments struct, printed
\* when the variant has fragment spreads.
fragmentsDeclarations(variant) ==
  LET fragmentSpreads ==
        [i \in 1..Len(variant.fragmentSpreads) |->
           propertyFromFragmentSpread(
             variant.fragmentSpreads[i],
             fragmentSpreadIsConditional(variant, variant.fragmentSpreads[i]))]
  IN  IF Len(fragmentSpreads) > 0
      THEN <<[kind |-> "fragments",
              get |-> [wrapStruct |-> <<"Fragments">>,
                       wrapOver |-> "resultMap"],
              set |-> [assign |-> "resultMap += newValue.resultMap"]],
             [kind |-> "fragmentsStruct",
              structName |-> <<"Fragments">>,
              members |->
                <<[kind |-> "resultMap"], [kind |-> "initUnsafeResultMap"]>>
                \o [i \in 1..Len(fragmentSpreads) |->
                      fragmentAccessor(fragmentSpreads[i])]]>>
      ELSE <<>>

RECURSIVE structDeclarationForSelectionSet(_, _, _, _)
RECURSIVE structDeclarationForVariant(_, _, _, _, _, _)

structDeclarationForVariant(structName, adoptedProtocols, variant, typeCase, before, after) ==
  LET fields == variant.fields
      nested ==
        Concat([i \in 1..Len(fields) |->
                  IF fields[i].isComposite /\ fields[i].selectionSet # <<>>
                  THEN structDeclarationForSelectionSet(
                         structNameForPropertyName(fields[i].responseKey),
                         <<"GraphQLSelectionSet">>,
                         fields[i].selectionSet[1], <<>>)
                  ELSE <<>>])
  IN  <<[kind |-> "struct",
         structName |-> structName,
         adoptedProtocols |-> adoptedProtocols,
         namespace |-> options.namespace,
         members |->
           before
           \o <<[kind |-> "possibleTypes", types |-> variant.possibleTypes]>>
           \o <<IF typeCase # <<>> /\ Len(typeCase[1].variants) >= 1
                THEN typeCaseInitialization(typeCase[1])
                ELSE selectionSetInitialization(variant)>>
           \o <<[kind |-> "resultMap"], [kind |-> "initUnsafeResultMap"]>>
           \o (IF typeCase # <<>>
               THEN initializersForTypeCase(typeCase[1], structName)
               ELSE initializersForVariant(variant, <<>>, TRUE, structName))
           \o [i \in 1..Len(fields) |-> propertyDeclarationForField(fields[i])]
           \o fragmentsDeclarations(variant)
           \o nested
           \o after]>>

\* Mutant: each variant's struct is printed before its narrowing accessor.
structDeclarationForSelectionSetStructFirst(structName, adoptedProtocols, selectionSet, before) ==
  LET typeCase == selectionSet.typeCase
      variants == [i \in 1..Len(typeCase.variants) |->
                     propertyFromVariant(typeCase.variants[i])]
  IN  structDeclarationForVariant(
        structName, adoptedProtocols, typeCase.default, <<typeCase>>, before,
        Concat([i \in 1..Len(variants) |->
                  structDeclarationForVariant(
                    variants[i].structName, <<"GraphQLSelectionSet">>,
                    variants[i], <<>>, <<>>, <<>>)
                  \o <<propertyDeclarationForVariant(variants[i])>>]))

structDeclarationForSelectionSet(structName, adoptedProtocols, selectionSet, before) ==
  LET typeCase == selectionSet.typeCase
      variants == [i \in 1..Len(typeCase.variants) |->
                     propertyFromVariant(typeCase.variants[i])]
  IN  structDeclarationForVariant(
        structName, adoptedProtocols, typeCase.default, <<typeCase>>, before,
        Concat([i \in 1..Len(variants) |->
                  <<propertyDeclarationForVariant(variants[i])>>
                  \o structDeclarationForVariant(
                       variants[i].structName, <<"GraphQLSelectionSet">>,
                       variants[i], <<>>, <<>>, <<>>)]))

structDeclarationForFragment(fragment) ==
  structDeclarationForSelectionSet(
    structNameForFragmentName(fragment.fragmentName),
    <<"GraphQLFragment">>,
    fragment.selectionSet,
    IF fragment.source # ""
    THEN <<[kind |-> "fragmentDefinition", source |-> fragment.source]>>
    ELSE <<>>)

(***************************************************************************)
(* enumerationDeclaration: the cases, and the arms of the three switches   *)
(* (init?(rawValue:), rawValue, ==) in the order they are printed.  Each   *)
(* switch ends with the arm printed after the values: default for init     *)
(* and ==, case .__unknown for rawValue.                                   *)
(***************************************************************************)
enumCaseName(name) == <<"case", name>>

\* The same case written as a member reference (.name).
enumDotCaseName(name) == enumCaseName(name)

\* Mutant: an unrecognised raw value makes the failable initializer fail.
initDefaultArmNil == "nil"

\* Line 1014: default: self = .__unknown(rawValue)
initDefaultArm == "__unknown(rawValue)"

\* Mutant: values that match no arm compare by raw value.
equalDefaultArmByRawValue == "lhs.rawValue == rhs.rawValue"

\* Line 1051: default: return false
equalDefaultArm == "false"

enumerationDeclaration(type) ==
  LET values == type.values
  IN  [kind |-> "enum",
       name |-> type.name,
       cases |-> [i \in 1..Len(values) |-> enumCaseName(values[i].name)],
       unknownCase |-> "__unknown",
       initArms |->
         [i \in 1..Len(values) |->
            [pattern |-> values[i].value,
             result |-> enumDotCaseName(values[i].name)]],
       initDefault |-> initDefaultArm,
       rawValueArms |->
         [i \in 1..Len(values) |->
            [pattern |-> enumDotCaseName(values[i].name),
             result |-> values[i].value]],
       rawValueUnknown |-> "value",
       equalArms |->
         [i \in 1..Len(values) |->
            [lhs |-> enumDotCaseName(values[i].name),
             rhs |-> enumDotCaseName(values[i].name)]],
       equalUnknown |-> "lhsValue == rhsValue",
       equalDefault |-> equalDefaultArm,
       allCases |-> [i \in 1..Len(values) |-> enumDotCaseName(values[i].name)]]

(***************************************************************************)
(* structDeclarationForInputObjectType: a struct over graphQLMap with one  *)
(* initializer parameter and one accessor per input field.  An optional    *)
(* property is typed Swift.Optional<T?> and defaults to nil.               *)
(***************************************************************************)
propertyFromInputField(field) ==
  [name |-> field.name,
   propertyName |-> field.name,
   type |-> field.type,
   isOptional |-> ~isNonNullType(field.type)]

structDeclarationForInputObjectType(type) ==
  LET properties ==
        [i \in 1..Len(type.fields) |-> propertyFromInputField(type.fields[i])]
  IN  [kind |-> "struct",
       structName |-> <<type.name>>,
       adoptedProtocols |-> <<"GraphQLMapConvertible">>,
       namespace |-> "",
       members |->
         <<[kind |-> "graphQLMap"],
           [kind |-> "init",
            parameters |-> parametersForProperties(properties),
            assigns |-> [i \in 1..Len(properties) |-> properties[i].name]]>>
         \o [i \in 1..Len(properties) |->
               [kind |-> "inputProperty",
                name |-> properties[i].name,
                doubleOptional |-> properties[i].isOptional,
                get |-> IF properties[i].isOptional
                        THEN "as? T ?? .none" ELSE "as! T",
                set |-> "updateValue"]]]

\* typeDeclarationForGraphQLType: an enum or an input object is declared,
\* any other type prints nothing.
typeDeclarationForGraphQLType(type) ==
  IF type.kind = "enum" THEN <<enumerationDeclaration(type)>>
  ELSE IF type.kind = "input" THEN <<structDeclarationForInputObjectType(type)>>
  ELSE <<>>

(***************************************************************************)
(* classDeclarationForOperation.  The switch over operationType comes      *)
(* first: an operation type it does not know throws before anything is     *)
(* printed.                                                                *)
(***************************************************************************)
UnsupportedOperationType == "Unsupported operation type"

\* Mutant: the switch has no default arm and treats any other kind as a query.
classNameAndProtocolNoDefault(operation) ==
  CASE operation.operationType = "mutation" ->
         [className |-> <<operationClassName(operation.operationName), "Mutation">>,
          protocol |-> "GraphQLMutation"]
    [] operation.operationType = "subscription" ->
         [className |-> <<operationClassName(operation.operationName), "Subscription">>,
          protocol |-> "GraphQLSubscription"]
    [] OTHER ->
         [className |-> <<operationClassName(operation.operationName), "Query">>,
          protocol |-> "GraphQLQuery"]

classNameAndProtocol(operation) ==
  CASE operation.operationType = "query" ->
         [className |-> <<operationClassName(operation.operationName), "Query">>,
          protocol |-> "GraphQLQuery"]
    [] operation.operationType = "mutation" ->
         [className |-> <<operationClassName(operation.operationName), "Mutation">>,
          protocol |-> "GraphQLMutation"]
    [] operation.operationType = "subscription" ->
         [className |-> <<operationClassName(operation.operationName), "Subscription">>,
          protocol |-> "GraphQLSubscription"]
    [] OTHER ->
         [className |-> <<>>, protocol |-> "", error |-> UnsupportedOperationType]

throws(r) == "error" \in DOMAIN r

\* Mutant: public is dropped in every per-file run, namespace or not.
classModifiersIgnoringNamespace(oif) ==
  IF oif THEN <<"final">> ELSE <<"public", "final">>

classModifiers(oif) ==
  LET isRedundant == options.namespace # "" /\ oif
  IN  IF isRedundant THEN <<"final">> ELSE <<"public", "final">>

\* generateOperationId (apollo-codegen-core): a digest of the operation's
\* source and of the sources of the fragments referenced, kept here as the
\* text it digests.
generateOperationId(operation, fragmentsReferenced) ==
  <<operation.source>> \o
  [i \in 1..Len(fragmentsReferenced) |->
     LET named == {k \in 1..Len(fragments) :
                     fragments[k].fragmentName = fragmentsReferenced[i]}
     IN  IF named = {} THEN "" ELSE fragments[CHOOSE k \in named : TRUE].source]

\* Lines 204-246: operationDefinition, operationName, operationIdentifier,
\* queryDocument.
documentMembers(operation) ==
  LET fragmentsReferenced == operation.fragmentsReferenced
  IN  (IF operation.source # ""
       THEN <<[kind |-> "operationDefinition", source |-> operation.source]>>
       ELSE <<>>)
      \o <<[kind |-> "operationName", name |-> operation.operationName]>>
      \o (IF options.generateOperationIds
          THEN <<[kind |-> "operationIdentifier",
                  id |-> generateOperationId(operation, fragmentsReferenced)]>>
          ELSE <<>>)
      \o (IF Len(fragmentsReferenced) > 0
          THEN <<[kind |-> "queryDocument",
                  base |-> "operationDefinition",
                  appending |->
                    [i \in 1..Len(fragmentsReferenced) |->
                       structNameForFragmentName(fragmentsReferenced[i])]]>>
          ELSE <<>>)

\* Lines 250-284: stored properties, initializer and variables map.
variableMembers(operation) ==
  IF Len(operation.variables) > 0
  THEN LET properties == propertiesForVariables(operation.variables)
       IN  propertyDeclarations(properties)
           \o <<initializerDeclarationForProperties(properties)>>
           \o <<[kind |-> "variables",
                 keys |-> [i \in 1..Len(properties) |-> properties[i].name]]>>
  ELSE <<initializerDeclarationForProperties(<<>>)>>

classDeclarationForOperation(operation, oif) ==
  LET head == classNameAndProtocol(operation)
  IN  IF throws(head) THEN [kind |-> "error", message |-> head.error]
      ELSE [kind |-> "class",
            className |-> head.className,
            modifiers |-> classModifiers(oif),
            adoptedProtocols |-> <<head.protocol>>,
            members |->
              documentMembers(operation)
              \o variableMembers(operation)
              \o structDeclarationForSelectionSet(
                   <<"Data">>, <<"GraphQLSelectionSet">>,
                   operation.selectionSet, <<>>)]

(***************************************************************************)
(* generateSource.  The context is not changed by the loops, so the calls  *)
(* the function makes, in order, are a function of its arguments: each     *)
(* call names the method, the entity it is given, the output file it       *)
(* prints to (<<>> for the generator's single output) and the namespace    *)
(* wrapper it prints in.                                                   *)
(***************************************************************************)
TypesFile == <<"Types.graphql", "swift">>
SwiftFile(inputFilePath) == <<Basename(inputFilePath), "swift">>

Call(method, index, file, wrapper) ==
  [call |-> method, index |-> index, file |-> file, wrapper |-> wrapper]

\* Lines 77-85: the Set of input file paths, operations first.
inputFilePaths ==
  SetAddAll(
    SetAddAll(<<>>, [i \in 1..Len(operations) |-> operations[i].filePath]),
    [j \in 1..Len(fragments) |-> fragments[j].filePath])

typeCalls(file) ==
  [i \in 1..Len(typesUsed) |-> Call("type", i, file, "namespaceDeclaration")]

\* Lines 90-109: one output file for an input file path.
perFileCalls(inputFilePath) ==
  LET file == SwiftFile(inputFilePath)
      ops == SelectSeq([i \in 1..Len(operations) |-> i],
                       LAMBDA i : operations[i].filePath = inputFilePath)
      frs == SelectSeq([j \in 1..Len(fragments) |-> j],
                       LAMBDA j : fragments[j].filePath = inputFilePath)
  IN  <<Call("fileHeader", 0, file, "")>>
      \o [k \in 1..Len(ops) |->
            Call("operation", ops[k], file, "namespaceExtensionDeclaration")]
      \o [k \in 1..Len(frs) |->
            Call("fragment", frs[k], file, "namespaceExtensionDeclaration")]

generateSourceCalls ==
  IF outputIndividualFiles
  THEN <<Call("fileHeader", 0, TypesFile, "")>>
       \o typeCalls(TypesFile)
       \o Concat([k \in 1..Len(inputFilePaths) |->
                    IF only # <<>> /\ inputFilePaths[k] # only
                    THEN <<>>
                    ELSE perFileCalls(inputFilePaths[k])])
  ELSE <<Call("fileHeader", 0, <<>>, "")>>
       \o typeCalls(<<>>)
       \o [i \in 1..Len(operations) |->
             Call("operation", i, <<>>, "namespaceDeclaration")]
       \o [j \in 1..Len(fragments) |->
             Call("fragment", j, <<>>, "namespaceDeclaration")]

\* The call generateSource makes next, if the run is not over.
PendingCalls ==
  IF thrown = "" /\ ~returned
  THEN LET calls == generateSourceCalls
       IN  IF pc <= Len(calls) THEN {calls[pc]} ELSE {}
  ELSE {}

Printed(call, decls) ==
  [k \in 1..Len(decls) |->
     [file |-> call.file, wrapper |-> call.wrapper,
      namespace |-> options.namespace, decl |-> decls[k]]]

FileHeader(c) ==
  /\ c.call = "fileHeader"
  /\ output' = output \o Printed(c, <<fileHeader>>)
  /\ pc' = pc + 1
  /\ UNCHANGED <<operations, fragments, typesUsed, options,
                 outputIndividualFiles, only, thrown, returned,
                 enumVars, viewVars, fieldVars, checkVars>>

TypeDeclarationForGraphQLType(c) ==
  /\ c.call = "type"
  /\ output' = output \o
       Printed(c, typeDeclarationForGraphQLType(typesUsed[c.index]))
  /\ pc' = pc + 1
  /\ UNCHANGED <<operations, fragments, typesUsed, options,
                 outputIndividualFiles, only, thrown, returned,
                 enumVars, viewVars, fieldVars, checkVars>>

\* Mutant: the operation id is computed and cached whatever the options say.
ClassDeclarationForOperationAlwaysCachesId(c) ==
  /\ c.call = "operation"
  /\ LET decl == classDeclarationForOperation(operations[c.index],
                                              outputIndividualFiles)
     IN  /\ decl.kind = "class"
         /\ output' = output \o Printed(c, <<decl>>)
         /\ operations' =
              [operations EXCEPT ![c.index].operationId =
                 <<generateOperationId(
                     operations[c.index],
                     operations[c.index].fragmentsReferenced)>>]
  /\ pc' = pc + 1
  /\ UNCHANGED <<fragments, typesUsed, options, outputIndividualFiles, only,
                 thrown, returned, enumVars, viewVars, fieldVars, checkVars>>

\* classDeclarationForOperation returns: the class is printed, and with
\* generateOperationIds the operation's operationId is set.
ClassDeclarationForOperation(c) ==
  /\ c.call = "operation"
  /\ LET decl == classDeclarationForOperation(operations[c.index],
                                              outputIndividualFiles)
     IN  /\ decl.kind = "class"
         /\ output' = output \o Printed(c, <<decl>>)
         /\ operations' =
              IF options.generateOperationIds
              THEN [operations EXCEPT ![c.index].operationId =
                      <<generateOperationId(
                          operations[c.index],
                          operations[c.index].fragmentsReferenced)>>]
              ELSE operations
  /\ pc' = pc + 1
  /\ UNCHANGED <<fragments, typesUsed, options, outputIndividualFiles, only,
                 thrown, returned, enumVars, viewVars, fieldVars, checkVars>>

\* Mutant: the error is caught around the call and the loop goes on.
ClassDeclarationForOperationSkips(c) ==
  /\ c.call = "operation"
  /\ classDeclarationForOperation(operations[c.index],
                                  outputIndividualFiles).kind = "error"
  /\ pc' = pc + 1
  /\ UNCHANGED <<operations, fragments, typesUsed, options,
                 outputIndividualFiles, only, output, thrown, returned,
                 enumVars, viewVars, fieldVars, checkVars>>

\* classDeclarationForOperation throws: nothing catches the error, so it
\* leaves generateSource, which returns no generator.
ClassDeclarationForOperationThrows(c) ==
  /\ c.call = "operation"
  /\ LET decl == classDeclarationForOperation(operations[c.index],
                                              outputIndividualFiles)
     IN  /\ decl.kind = "error"
         /\ thrown' = decl.message
  /\ UNCHANGED <<operations, fragments, typesUsed, options,
                 outputIndividualFiles, only, output, pc, returned,
                 enumVars, viewVars, fieldVars, checkVars>>

StructDeclarationForFragment(c) ==
  /\ c.call = "fragment"
  /\ output' = output \o
       Printed(c, structDeclarationForFragment(fragments[c.index]))
  /\ pc' = pc + 1
  /\ UNCHANGED <<operations, fragments, typesUsed, options,
                 outputIndividualFiles, only, thrown, returned,
                 enumVars, viewVars, fieldVars, checkVars>>

\* Line 129: return generator.
Return ==
  /\ thrown = ""
  /\ ~returned
  /\ pc = Len(generateSourceCalls) + 1
  /\ returned' = TRUE
  /\ UNCHANGED <<operations, fragments, typesUsed, options,
                 outputIndividualFiles, only, output, pc, thrown,
                 enumVars, viewVars, fieldVars, checkVars>>

GenerateSource ==
  \/ \E c \in PendingCalls : FileHeader(c)
  \/ \E c \in PendingCalls : TypeDeclarationForGraphQLType(c)
  \/ \E c \in PendingCalls : ClassDeclarationForOperation(c)
  \/ \E c \in PendingCalls : ClassDeclarationForOperationThrows(c)
  \/ \E c \in PendingCalls : StructDeclarationForFragment(c)
  \/ Return

(***************************************************************************)
(* Contexts.                                                               *)
(***************************************************************************)
\* Contexts of several operations and fragments that differ in kind and in
\* input file.
RunOperations ==
  UNION {{[i \in 1..n |->
             MkOperation(OperationNames[i], f[i][1], f[i][2], "query Hero",
                         <<>>, <<>>, BaseSelectionSet)] :
            f \in [1..n -> OperationTypes \X FilePaths]} :
         n \in 0..MaxOperations}

RunFragments ==
  UNION {{[j \in 1..n |->
             MkFragment(FragmentNames[j], f[j], "fragment Details",
                        BaseSelectionSet)] :
            f \in [1..n -> FilePaths]} :
         n \in 0..MaxFragments}

(***************************************************************************)
(* The emitted enum at run time.  A value is one of the declared cases or  *)
(* __unknown carrying a raw string.  The three members are switches: the   *)
(* first arm whose pattern matches is taken, the default arm otherwise.    *)
(***************************************************************************)
KnownCase(caseName) == [tag |-> "case", name |-> caseName, raw |-> ""]

UnknownCase(s) == [tag |-> "__unknown", name |-> <<>>, raw |-> s]

\* The index of the first arm that matches, 0 when none does; hits[i] tells
\* whether the i-th arm's pattern matches the value switched on.
FirstArm(hits) ==
  IF \E i \in 1..Len(hits) : hits[i]
  THEN CHOOSE i \in 1..Len(hits) : hits[i] /\ \A j \in 1..(i - 1) : ~hits[j]
  ELSE 0

\* init?(rawValue:) of the declaration decl; <<>> is nil.
EnumInitRawValue(decl, rawValue) ==
  LET i == FirstArm([k \in 1..Len(decl.initArms) |->
                       decl.initArms[k].pattern = rawValue])
  IN  IF i # 0 THEN <<KnownCase(decl.initArms[i].result)>>
      ELSE IF decl.initDefault = "__unknown(rawValue)"
           THEN <<UnknownCase(rawValue)>>
           ELSE <<>>

\* var rawValue of the declaration decl, read on value.
EnumRawValue(decl, value) ==
  LET i == FirstArm([k \in 1..Len(decl.rawValueArms) |->
                       /\ value.tag = "case"
                       /\ decl.rawValueArms[k].pattern = value.name])
  IN  IF i # 0 THEN decl.rawValueArms[i].result ELSE value.raw

\* static func == of the declaration decl.
EnumEquals(decl, l, r) ==
  LET i == FirstArm([k \in 1..Len(decl.equalArms) |->
                       /\ l.tag = "case" /\ decl.equalArms[k].lhs = l.name
                       /\ r.tag = "case" /\ decl.equalArms[k].rhs = r.name])
  IN  IF i # 0 THEN TRUE
      ELSE IF l.tag = "__unknown" /\ r.tag = "__unknown" THEN l.raw = r.raw
      ELSE IF decl.equalDefault = "false" THEN FALSE
      ELSE EnumRawValue(decl, l) = EnumRawValue(decl, r)

\* Raw strings a server may send: the declared ones and one added later.
EnumValueNames == {"NEWHOPE", "EMPIRE", "JEDI"}

RawStrings == EnumValueNames \cup {"FUTURE_VALUE"}

\* Enum types whose declared values are distinct and equal to their names.
EnumTypes ==
  {[kind |-> "enum", name |-> "Episode",
    values |-> [i \in 1..Len(names) |->
                  [name |-> names[i], value |-> names[i]]]] :
     names \in DistinctSeqs(EnumValueNames, MaxEnumValues)}

\* Every value of the emitted enum a program can write down.
EnumValues(decl) ==
  {KnownCase(decl.cases[i]) : i \in 1..Len(decl.cases)}
  \cup {UnknownCase(s) : s \in RawStrings}

Sides == {"lhs", "rhs"}

\* Episode(rawValue: s), as JSON decoding calls it.
DecodeEnum(side, s) ==
  LET v == EnumInitRawValue(enumerationDeclaration(enumType), s)
  IN  /\ lhs' = IF side = "lhs" THEN v ELSE lhs
      /\ rhs' = IF side = "rhs" THEN v ELSE rhs
      /\ decodedFrom' = IF side = "lhs" THEN <<s>> ELSE decodedFrom
      /\ rawOut' = IF side = "lhs" THEN <<>> ELSE rawOut
      /\ equal' = ""
      /\ UNCHANGED <<enumType, genVars, viewVars, fieldVars, checkVars>>

\* A value written in the program: .jedi or .__unknown("JEDI").
ConstructEnum(side, v) ==
  /\ lhs' = IF side = "lhs" THEN <<v>> ELSE lhs
  /\ rhs' = IF side = "rhs" THEN <<v>> ELSE rhs
  /\ decodedFrom' = IF side = "lhs" THEN <<>> ELSE decodedFrom
  /\ rawOut' = IF side = "lhs" THEN <<>> ELSE rawOut
  /\ equal' = ""
  /\ UNCHANGED <<enumType, genVars, viewVars, fieldVars, checkVars>>

\* lhs.rawValue, as JSON encoding reads it.
EncodeEnum ==
  /\ lhs # <<>>
  /\ rawOut' = <<EnumRawValue(enumerationDeclaration(enumType), lhs[1])>>
  /\ UNCHANGED <<enumType, lhs, rhs, decodedFrom, equal, genVars, viewVars, fieldVars, checkVars>>

\* lhs == rhs
CompareEnum ==
  /\ lhs # <<>>
  /\ rhs # <<>>
  /\ equal' = IF EnumEquals(enumerationDeclaration(enumType), lhs[1], rhs[1])
              THEN "true" ELSE "false"
  /\ UNCHANGED <<enumType, lhs, rhs, decodedFrom, rawOut, genVars, viewVars, fieldVars, checkVars>>

NextEnum ==
  \/ \E side \in Sides, s \in RawStrings : DecodeEnum(side, s)
  \/ \E side \in Sides, v \in EnumValues(enumerationDeclaration(enumType)) :
       ConstructEnum(side, v)
  \/ EncodeEnum
  \/ CompareEnum

(***************************************************************************)
(* The emitted selection-set struct at run time.  A value of the struct is *)
(* a view over a container (resultMap) that carries the concrete type name *)
(* under "__typename".  A narrowing accessor's getter is                   *)
(*   if !V.possibleTypes.contains(__typename) { return nil }               *)
(*   return V(unsafeResultMap: resultMap)                                  *)
(* where __typename is the struct's own property for the field of that     *)
(* name, which every selection set of the compiled document includes.      *)
(***************************************************************************)
RuntimeTypes == {"Human", "Droid", "Wookiee"}

NoFragmentRead == [read |-> FALSE, struct |-> 0, accessor |-> 0, result |-> <<>>]

NoAssignment ==
  [done |-> FALSE, kind |-> "", accessor |-> 0, value |-> <<>>,
   before |-> [key \in {"__typename"} |-> ""]]

ViewPossibleTypes == <<"Human", "Droid", "Wookiee">>

\* Lists of disjoint type conditions over ViewPossibleTypes.
ViewTypeConditionLists ==
  {<<>>,
   <<<<"Human">>>>,
   <<<<"Human", "Droid">>>>,
   <<<<"Droid">>, <<"Human">>>>,
   <<<<"Human">>, <<"Droid", "Wookiee">>>>}

\* The fragments of the context: on every type of the selection set, on one
\* of them, and on a type the selection set cannot have.
ViewFragments ==
  LET path == <<"queries", "a.graphql">>
      fs == <<ScalarField("__typename"), ScalarField("name")>>
  IN  <<MkFragment(FragmentNames[1], path, "fragment HeroDetails",
                   MkSelectionSet(ViewPossibleTypes, fs, <<>>)),
        MkFragment(FragmentNames[2], path, "fragment DroidDetails",
                   MkSelectionSet(<<"Droid">>, fs, <<>>)),
        MkFragment(FragmentNames[3], path, "fragment HumanDetails",
                   MkSelectionSet(<<"Human", "Ewok">>, fs, <<>>))>>

ViewFragmentSpreadLists ==
  {[i \in 1..Len(ix) |-> MkFragmentSpread(ViewFragments[ix[i]], ViewPossibleTypes)] :
     ix \in {<<>>, <<1, 2>>, <<3, 2>>}}

ViewSelectionSets ==
  {WithFragmentSpreads(
     MkSelectionSet(ViewPossibleTypes,
                    <<ScalarField("__typename"), ScalarField("name")>>, vts),
     spreads) :
     vts \in ViewTypeConditionLists, spreads \in ViewFragmentSpreadLists}

\* Containers a response can hold for such a selection set.
ResultMaps ==
  UNION {{[key \in keys |->
             IF key = "__typename" THEN t
             ELSE IF key = "name" THEN n ELSE "Astromech"] :
            t \in RuntimeTypes, n \in {"Luke", "R2-D2"}} :
         keys \in {{"__typename", "name"},
                   {"__typename", "name", "primaryFunction"}}}

\* The struct emitted for the exercised selection set.
\* The struct emitted for the selection set sel.
EmittedStruct(sel) ==
  structDeclarationForSelectionSet(
    <<"Hero">>, <<"GraphQLSelectionSet">>, sel, <<>>)[1]

ViewStruct == viewDecl

\* The struct a name refers to inside decl: decl itself for Self or its own
\* name, else the struct of that name nested in it.
ResolveStruct(decl, name) ==
  IF name = <<"Self">> \/ name = decl.structName THEN decl
  ELSE LET i == CHOOSE i \in 1..Len(decl.members) :
                  /\ decl.members[i].kind = "struct"
                  /\ decl.members[i].structName = name
       IN  decl.members[i]

\* static let possibleTypes of a struct declaration.
PossibleTypesOf(decl) ==
  LET i == CHOOSE i \in 1..Len(decl.members) :
             decl.members[i].kind = "possibleTypes"
  IN  Range(decl.members[i].types)

\* The getter of the scalar property of decl for responseKey, read on a
\* value over rm: return resultMap["responseKey"]! as! T.
PropertyGet(decl, responseKey, rm) ==
  LET i == CHOOSE i \in 1..Len(decl.members) :
             /\ decl.members[i].kind = "property"
             /\ decl.members[i].responseKey = responseKey
  IN  rm[decl.members[i].responseKey]

\* The getter of the narrowing accessor, read on a value of decl over rm;
\* <<>> is nil.
NarrowingGet(decl, accessor, rm) ==
  IF PropertyGet(decl, accessor.get.guardProperty, rm)
       \notin PossibleTypesOf(ResolveStruct(decl, accessor.get.guardStruct))
  THEN <<>>
  ELSE <<[struct |-> accessor.get.wrapStruct, resultMap |-> rm]>>

\* The narrowing accessors of decl, in declaration order.
NarrowingAccessors(decl) ==
  SelectSeq(decl.members, LAMBDA m : m.kind = "narrowing")

\* init(unsafeResultMap:): the value is bound to a container.
InitUnsafeResultMap(rm) ==
  /\ resultMap' = rm
  /\ narrowed' = [read |-> FALSE, variant |-> 0, result |-> <<>>]
  /\ builtBy' = <<>>
  /\ fragRead' = NoFragmentRead
  /\ assigned' = NoAssignment
  /\ UNCHANGED <<viewSel, viewDecl, genVars, enumVars, fieldVars, checkVars>>

\* The structs of decl that have initializers: decl and the variant structs
\* nested in it.
StructsWithin(decl) ==
  <<decl>> \o MembersOfKind(decl, "struct")

\* The initializers and factories of decl, in declaration order.
InitializersOf(decl) ==
  SelectSeq(decl.members, LAMBDA m : m.kind \in {"initializer", "factory"})

\* The container the initializer builds from string arguments: name for the
\* parameter of that name, other for every other parameter.
BuiltResultMap(initializer, name, other) ==
  LET keys == {initializer.assignments[i].key :
                 i \in 1..Len(initializer.assignments)}
  IN  [key \in {"__typename"} \cup keys |->
         IF key = "__typename" THEN initializer.typename
         ELSE IF key = "name" THEN name ELSE other]

\* S(name: ...) or S.makeT(name: ...), for the j-th initializer of the i-th
\* struct.
BuildWithInitializer(i, j, name) ==
  LET structs == StructsWithin(ViewStruct)
      decl == structs[i]
      initializer == InitializersOf(decl)[j]
  IN
  /\ i \in 1..Len(structs)
  /\ j \in 1..Len(InitializersOf(decl))
  /\ resultMap' = BuiltResultMap(initializer, name, "Astromech")
  /\ builtBy' = <<[struct |-> decl.structName,
                   name |-> initializer.name,
                   returns |-> initializer.returns]>>
  /\ narrowed' = [read |-> FALSE, variant |-> 0, result |-> <<>>]
  /\ fragRead' = NoFragmentRead
  /\ assigned' = NoAssignment
  /\ UNCHANGED <<viewSel, viewDecl, genVars, enumVars, fieldVars, checkVars>>

\* value.asV, for the i-th variant V.
ReadNarrowingAccessor(i) ==
  LET decl == ViewStruct
  IN  /\ i \in 1..Len(NarrowingAccessors(decl))
      /\ narrowed' = [read |-> TRUE, variant |-> i,
                      result |-> NarrowingGet(decl, NarrowingAccessors(decl)[i],
                                              resultMap)]
      /\ fragRead' = NoFragmentRead
      /\ assigned' = NoAssignment
      /\ UNCHANGED <<viewSel, viewDecl, resultMap, builtBy, genVars, enumVars, fieldVars, checkVars>>

\* The struct emitted for the fragment whose struct is named structName.
FragmentStruct(structName) ==
  LET i == CHOOSE i \in 1..Len(ViewFragments) :
             structNameForFragmentName(ViewFragments[i].fragmentName) = structName
  IN  structDeclarationForFragment(ViewFragments[i])[1]

\* The accessors of the Fragments struct of decl, in declaration order.
FragmentAccessors(decl) ==
  LET fs == MembersOfKind(decl, "fragmentsStruct")
  IN  IF fs = <<>> THEN <<>> ELSE MembersOfKind(fs[1], "fragmentAccessor")

\* The getter of a fragment accessor on a Fragments value over rm; <<>> is
\* nil.
FragmentGet(accessor, rm) ==
  IF /\ accessor.get.guardStruct # <<>>
     /\ rm[accessor.get.guardKey]
          \notin PossibleTypesOf(FragmentStruct(accessor.get.guardStruct))
  THEN <<>>
  ELSE <<[struct |-> accessor.get.wrapStruct, resultMap |-> rm]>>

\* resultMap += other: the keys of other are added or overwritten.
Merge(rm, other) ==
  [key \in DOMAIN rm \cup DOMAIN other |->
     IF key \in DOMAIN other THEN other[key] ELSE rm[key]]

\* A setter run on a value over rm with newValue (<<>> is nil): the
\* container afterwards.
SetterResult(set, rm, newValue) ==
  IF newValue = <<>> THEN rm
  ELSE IF set.assign = "resultMap = newValue.resultMap"
       THEN newValue[1].resultMap
       ELSE Merge(rm, newValue[1].resultMap)

\* The values of the struct named structName whose possible types are types.
ViewsOf(structName, types) ==
  {[struct |-> structName, resultMap |-> rm] :
     rm \in {r \in ResultMaps : r["__typename"] \in types}}

\* value.fragments.f, on a value of the i-th struct (the default struct or a
\* variant's) whose container has one of that struct's possible types.
ReadFragmentAccessor(i, k) ==
  LET structs == StructsWithin(ViewStruct)
  IN  /\ i \in 1..Len(structs)
      /\ k \in 1..Len(FragmentAccessors(structs[i]))
      /\ resultMap["__typename"] \in PossibleTypesOf(structs[i])
      /\ fragRead' =
           [read |-> TRUE, struct |-> i, accessor |-> k,
            result |-> FragmentGet(FragmentAccessors(structs[i])[k], resultMap)]
      /\ narrowed' = [read |-> FALSE, variant |-> 0, result |-> <<>>]
      /\ assigned' = NoAssignment
      /\ UNCHANGED <<viewSel, viewDecl, resultMap, builtBy, genVars, enumVars, fieldVars, checkVars>>

\* value.asV = newValue, for nil and for every value of V.
AssignNarrowingAccessor(i) ==
  LET decl == ViewStruct
      accessor == NarrowingAccessors(decl)[i]
      V == ResolveStruct(decl, accessor.get.wrapStruct)
  IN  /\ i \in 1..Len(NarrowingAccessors(decl))
      /\ \E newValue \in {<<>>} \cup
              {<<v>> : v \in ViewsOf(V.structName, PossibleTypesOf(V))} :
           /\ resultMap' = SetterResult(accessor.set, resultMap, newValue)
           /\ assigned' = [done |-> TRUE, kind |-> "narrowing",
                           accessor |-> i, value |-> newValue,
                           before |-> resultMap]
      /\ narrowed' = [read |-> FALSE, variant |-> 0, result |-> <<>>]
      /\ fragRead' = NoFragmentRead
      /\ builtBy' = <<>>
      /\ UNCHANGED <<viewSel, viewDecl, genVars, enumVars, fieldVars, checkVars>>

\* value.fragments.f = newValue, for every value of the fragment's struct
\* and, when the accessor is optional, nil: the accessor's setter runs on
\* the Fragments value the fragments getter returned, then the fragments
\* setter stores that value back.
AssignFragmentAccessor(k) ==
  LET decl == ViewStruct
      accessor == FragmentAccessors(decl)[k]
      F == FragmentStruct(accessor.structName)
      fragmentsSet == MembersOfKind(decl, "fragments")[1].set
  IN  /\ k \in 1..Len(FragmentAccessors(decl))
      /\ \E newValue \in (IF accessor.isConditional THEN {<<>>} ELSE {}) \cup
              {<<v>> : v \in ViewsOf(F.structName, PossibleTypesOf(F))} :
           /\ resultMap' =
                SetterResult(
                  fragmentsSet, resultMap,
                  <<[struct |-> <<"Fragments">>,
                     resultMap |-> SetterResult(accessor.set, resultMap,
                                                newValue)]>>)
           /\ assigned' = [done |-> TRUE, kind |-> "fragment",
                           accessor |-> k, value |-> newValue,
                           before |-> resultMap]
      /\ narrowed' = [read |-> FALSE, variant |-> 0, result |-> <<>>]
      /\ fragRead' = NoFragmentRead
      /\ builtBy' = <<>>
      /\ UNCHANGED <<viewSel, viewDecl, genVars, enumVars, fieldVars, checkVars>>

NextView ==
  \/ \E rm \in ResultMaps : InitUnsafeResultMap(rm)
  \/ \E i \in 1..2 : ReadNarrowingAccessor(i)
  \/ \E i \in 1..3, j \in 1..3, name \in {"Luke", "R2-D2"} :
       BuildWithInitializer(i, j, name)
  \/ \E i \in 1..3, k \in 1..2 : ReadFragmentAccessor(i, k)
  \/ \E i \in 1..2 : AssignNarrowingAccessor(i)
  \/ \E k \in 1..2 : AssignFragmentAccessor(k)

(***************************************************************************)
(* The emitted field accessors at run time.  What a container stores and   *)
(* what an accessor returns are tagged: null (nil), a string, a map (a     *)
(* nested container), a list, or a struct (a view over a container).       *)
(***************************************************************************)
Null == [t |-> "null"]

CastFailed == [t |-> "castFailed"]

Str(x) == [t |-> "str", v |-> x]

MapV(rm) == [t |-> "map", v |-> rm]

ListV(xs) == [t |-> "list", v |-> xs]

StructV(name, rm) == [t |-> "struct", name |-> name, v |-> rm]

\* All sequences over the set S, of length at most n.
ListsUpTo(S, n) == UNION {[1..k -> S] : k \in 0..n}

\* The getter's conversion: every map under the layers becomes a struct.
RECURSIVE WrapRaw(_, _, _)
WrapRaw(layers, structName, raw) ==
  IF layers = <<>>
  THEN IF raw.t = "map" THEN StructV(structName, raw.v) ELSE CastFailed
  ELSE IF Head(layers) = "optional"
  THEN IF raw.t = "null" THEN Null ELSE WrapRaw(Tail(layers), structName, raw)
  ELSE IF raw.t = "list"
       THEN ListV([i \in 1..Len(raw.v) |->
                     WrapRaw(Tail(layers), structName, raw.v[i])])
       ELSE CastFailed

\* The setter's conversion: every struct under the layers becomes its
\* resultMap.
RECURSIVE UnwrapValue(_, _)
UnwrapValue(layers, value) ==
  IF layers = <<>> THEN MapV(value.v)
  ELSE IF Head(layers) = "optional"
  THEN IF value.t = "null" THEN Null ELSE UnwrapValue(Tail(layers), value)
  ELSE ListV([i \in 1..Len(value.v) |-> UnwrapValue(Tail(layers), value.v[i])])

\* get of the property declaration decl on a value over the container rm.
FieldGet(decl, rm) ==
  IF decl.get.key \notin DOMAIN rm
  THEN IF decl.get.cast = "as?" THEN Null ELSE CastFailed
  ELSE IF decl.get.wrap = <<>> THEN rm[decl.get.key]
  ELSE WrapRaw(decl.get.layers, decl.get.wrap, rm[decl.get.key])

\* set of the property declaration decl: resultMap.updateValue(_, forKey:).
FieldSet(decl, rm, newValue) ==
  LET stored == IF decl.set.unwrap
                THEN UnwrapValue(decl.set.layers, newValue)
                ELSE newValue
  IN  [key \in DOMAIN rm \cup {decl.set.key} |->
         IF key = decl.set.key THEN stored ELSE rm[key]]

\* Containers of nested values.
NestedMaps ==
  {[key \in {"__typename", "name"} |-> IF key = "name" THEN n ELSE "Human"] :
     n \in {"Luke", "Leia"}}

RECURSIVE ValuesFor(_, _, _)
ValuesFor(layers, structName, maps) ==
  IF layers = <<>> THEN {StructV(structName, m) : m \in maps}
  ELSE IF Head(layers) = "optional"
  THEN {Null} \cup ValuesFor(Tail(layers), structName, maps)
  ELSE {ListV(xs) :
          xs \in ListsUpTo(ValuesFor(Tail(layers), structName, maps),
                           MaxListLen)}

\* The values of the accessor's declared type.
FieldValues(decl) ==
  IF decl.get.wrap = <<>>
  THEN {Str("Luke"), Str("Leia")}
       \cup (IF decl.get.cast = "as?" THEN {Null} ELSE {})
  ELSE ValuesFor(
         decl.get.layers, decl.get.wrap,
         IF Len(SelectSeq(decl.get.layers, LAMBDA l : l = "list")) > 1
         THEN {CHOOSE m \in NestedMaps : m["name"] = "Luke"}
         ELSE NestedMaps)

\* Fields of every shape the generator distinguishes.
TestFields ==
  LET T == Named("Character")
      S == Named("String")
  IN  {MkField("friends", type, cond, TRUE, <<BaseSelectionSet>>) :
         type \in {T, NonNullOf(T), ListOf(T), ListOf(NonNullOf(T)),
                   NonNullOf(ListOf(T)), NonNullOf(ListOf(NonNullOf(T))),
                   ListOf(ListOf(NonNullOf(T)))},
         cond \in BOOLEAN}
      \cup {MkField("nickname", type, cond, FALSE, <<>>) :
              type \in {S, NonNullOf(S)}, cond \in BOOLEAN}

\* The property declarations emitted for the fields under test.
FieldDecls ==
  MembersOfKind(
    structDeclarationForSelectionSet(
      <<"Hero">>, <<"GraphQLSelectionSet">>,
      MkSelectionSet(<<"Human">>, fieldsUnderTest, <<>>), <<>>)[1],
    "property")

AllFieldValues == UNION {FieldValues(FieldDecls[i]) : i \in 1..Len(FieldDecls)}

\* value.field = v
WriteField(i, v) ==
  /\ v \in FieldValues(FieldDecls[i])
  /\ fieldMap' = FieldSet(FieldDecls[i], fieldMap, v)
  /\ written' = [written EXCEPT ![i] = <<v>>]
  /\ readBack' = [read |-> FALSE, field |-> 0, result |-> Null]
  /\ UNCHANGED <<fieldsUnderTest, genVars, enumVars, viewVars, checkVars>>

\* value.field
ReadField(i) ==
  /\ readBack' = [read |-> TRUE, field |-> i,
                  result |-> FieldGet(FieldDecls[i], fieldMap)]
  /\ UNCHANGED <<fieldsUnderTest, fieldMap, written, genVars, enumVars,
                 viewVars, checkVars>>

NextField ==
  \/ \E i \in 1..2, v \in AllFieldValues : WriteField(i, v)
  \/ \E i \in 1..2 : ReadField(i)

(***************************************************************************)
(* ServiceCheck (commands/service/check).  A string is the sequence of its *)
(* characters; a JavaScript number is NaN or a signed decimal              *)
(* num / 10^exp, so that -0 and 0 are two values that compare equal.       *)
(***************************************************************************)
NaN == [nan |-> TRUE, neg |-> FALSE, num |-> 0, exp |-> 0]

Num(neg, num, exp) == [nan |-> FALSE, neg |-> neg, num |-> num, exp |-> exp]

\* The number an integer flag holds.
Intg(i) == Num(i < 0, IF i < 0 THEN -i ELSE i, 0)

Digits == <<"0", "1", "2", "3", "4", "5", "6", "7", "8", "9">>

RECURSIVE Pow10(_)
Pow10(k) == IF k = 0 THEN 1 ELSE 10 * Pow10(k - 1)

RECURSIVE DigitsValue(_)
DigitsValue(ds) ==
  IF ds = <<>> THEN 0
  ELSE DigitsValue(SubSeq(ds, 1, Len(ds) - 1)) * 10
       + (CHOOSE d \in 0..9 : Digits[d + 1] = ds[Len(ds)])

RECURSIVE Trim(_)
Trim(str) ==
  IF str = <<>> THEN str
  ELSE IF Head(str) = " " THEN Trim(Tail(str))
  ELSE IF str[Len(str)] = " " THEN Trim(SubSeq(str, 1, Len(str) - 1))
  ELSE str

\* Number(str) for a string: the empty or blank string is 0, a decimal
\* numeral with an optional sign is its value, anything else is NaN.
NumberOfString(str) ==
  LET t == Trim(str)
      signed == t # <<>> /\ Head(t) \in {"+", "-"}
      body == IF signed THEN Tail(t) ELSE t
      dots == {i \in 1..Len(body) : body[i] = "."}
      digits == SelectSeq(body, LAMBDA c : c # ".")
  IN  IF t = <<>> THEN Num(FALSE, 0, 0)
      ELSE IF /\ Cardinality(dots) <= 1
              /\ digits # <<>>
              /\ \A i \in 1..Len(digits) : Contains(Digits, digits[i])
           THEN Num(signed /\ Head(t) = "-", DigitsValue(digits),
                    IF dots = {} THEN 0
                    ELSE Len(body) - (CHOOSE i \in dots : TRUE))
           ELSE NaN

\* The numerator of x over 10^exp.
Scaled(x, exp) == (IF x.neg THEN -x.num ELSE x.num) * Pow10(exp - x.exp)

MaxExp(x, y) == IF x.exp > y.exp THEN x.exp ELSE y.exp

\* x > y, x >= y and x < y: false when either side is NaN.
NumGreater(x, y) ==
  ~x.nan /\ ~y.nan /\ Scaled(x, MaxExp(x, y)) > Scaled(y, MaxExp(x, y))

NumGreaterOrEqual(x, y) ==
  ~x.nan /\ ~y.nan /\ Scaled(x, MaxExp(x, y)) >= Scaled(y, MaxExp(x, y))

NumLess(x, y) ==
  ~x.nan /\ ~y.nan /\ Scaled(x, MaxExp(x, y)) < Scaled(y, MaxExp(x, y))

\* Number.isInteger(x)
NumIsInteger(x) == ~x.nan /\ x.num % Pow10(x.exp) = 0

\* x / 100
NumDividedBy100(x) == IF x.nan THEN x ELSE [x EXCEPT !.exp = @ + 2]

ToError ==
  "Please provide a valid number for the --to flag. Valid numbers are in the range x <= -0."

FromError ==
  "Please provide a valid number for the --from flag. Valid numbers are integers in the range x < -0, and --from must be less than --to."

QueryCountThresholdError ==
  "Please provide a valid number for the --queryCountThreshold flag. Valid numbers are integers in the range x >= 1."

QueryCountThresholdPercentageError ==
  "Please provide a valid number for the --queryCountThresholdPercentage flag. Valid numbers are in the range 0 <= x <= 100."

Threw(message) == [threw |-> message]

\* Mutant: the checks of --from and --to run in the other order.
validateHistoricParamsFromFirst(to, from, queryCountThreshold, queryCountThresholdPercentage) ==
  LET toNum == NumberOfString(to)
      fromNum == NumberOfString(from)
  IN  IF \/ from = <<"0">>
         \/ fromNum.nan
         \/ NumGreaterOrEqual(fromNum, toNum)
         \/ ~NumIsInteger(fromNum)
      THEN Threw(FromError)
      ELSE IF \/ to = <<"0">>
              \/ toNum.nan
              \/ NumGreater(toNum, Intg(0))
              \/ ~NumIsInteger(toNum)
      THEN Threw(ToError)
      ELSE IF \/ ~NumIsInteger(queryCountThreshold)
              \/ NumLess(queryCountThreshold, Intg(1))
      THEN Threw(QueryCountThresholdError)
      ELSE IF \/ NumLess(queryCountThresholdPercentage, Intg(0))
              \/ NumGreater(queryCountThresholdPercentage, Intg(100))
      THEN Threw(QueryCountThresholdPercentageError)
      ELSE [threw |-> "",
            to |-> toNum,
            from |-> fromNum,
            queryCountThreshold |-> queryCountThreshold,
            queryCountThresholdPercentage |->
              NumDividedBy100(queryCountThresholdPercentage)]

\* Lines 101-160.
validateHistoricParams(to, from, queryCountThreshold, queryCountThresholdPercentage) ==
  LET toNum == NumberOfString(to)
      fromNum == NumberOfString(from)
  IN  IF \/ to = <<"0">>
         \/ toNum.nan
         \/ NumGreater(toNum, Intg(0))
         \/ ~NumIsInteger(toNum)
      THEN Threw(ToError)
      ELSE IF \/ from = <<"0">>
              \/ fromNum.nan
              \/ NumGreaterOrEqual(fromNum, toNum)
              \/ ~NumIsInteger(fromNum)
      THEN Threw(FromError)
      ELSE IF \/ ~NumIsInteger(queryCountThreshold)
              \/ NumLess(queryCountThreshold, Intg(1))
      THEN Threw(QueryCountThresholdError)
      ELSE IF \/ NumLess(queryCountThresholdPercentage, Intg(0))
              \/ NumGreater(queryCountThresholdPercentage, Intg(100))
      THEN Threw(QueryCountThresholdPercentageError)
      ELSE [threw |-> "",
            to |-> toNum,
            from |-> fromNum,
            queryCountThreshold |-> queryCountThreshold,
            queryCountThresholdPercentage |->
              NumDividedBy100(queryCountThresholdPercentage)]

\* a || b for optional strings: <<>> is undefined.
OrElse(a, b) == IF a # <<>> /\ a # <<"">> THEN a ELSE b

\* What project.resolveSchema({ tag }) resolves to: the schema published
\* under that tag.
SchemaAt(tag) == [publishedAs |-> tag]

\* introspectionFromSchema(schema).__schema
IntrospectionOf(schema) == [introspectionOf |-> schema]

GitContext == [commit |-> "8d4f1c2", branch |-> "master"]

\* Lines 48-50: the task starts; a configuration without a service name
\* ends it.
TaskStart ==
  /\ runPc = "task"
  /\ IF config.name = <<>>
     THEN /\ runError' = "No service found to link to Engine"
          /\ runPc' = "done"
     ELSE /\ runPc' = "resolveSchema"
          /\ UNCHANGED runError
  /\ UNCHANGED <<config, flags, ctx, engineCalls, logged, exited, historic,
                 genVars, enumVars, viewVars, fieldVars>>

\* Lines 52-53.
ResolveSchema ==
  /\ runPc = "resolveSchema"
  /\ LET tag == OrElse(flags.tag, OrElse(config.tag, <<"current">>))
     IN  /\ engineCalls' = Append(engineCalls, [call |-> "resolveSchema", tag |-> tag])
         /\ ctx' = [ctx EXCEPT !.tag = tag, !.schema = <<SchemaAt(tag)>>]
  /\ runPc' = "gitInfo"
  /\ UNCHANGED <<config, flags, logged, runError, exited, historic,
                 genVars, enumVars, viewVars, fieldVars>>

\* Line 54.
GitInfo ==
  /\ runPc = "gitInfo"
  /\ engineCalls' = Append(engineCalls, [call |-> "gitInfo"])
  /\ ctx' = [ctx EXCEPT !.gitContext = <<GitContext>>]
  /\ runPc' = "checkSchema"
  /\ UNCHANGED <<config, flags, logged, runError, exited, historic,
                 genVars, enumVars, viewVars, fieldVars>>

\* Mutant: a check without changes is reported like any other.
ReportAlwaysTabulating ==
  /\ runPc = "report"
  /\ LET changes == ctx.checkSchemaResult[1].diffToPrevious.changes
         failures == SelectSeq(changes, LAMBDA change : change.type = "FAILURE")
     IN  /\ logged' =
              logged
              \o <<[op |-> "log", text |-> "\n"],
                   [op |-> "table",
                    rows |-> [i \in 1..Len(changes) |->
                                [formatted |-> changes[i]]],
                    columns |-> <<"type", "code", "description">>],
                   [op |-> "log", text |-> "\n"]>>
         /\ exited' = (Len(failures) > 0)
  /\ runPc' = "done"
  /\ UNCHANGED <<config, flags, ctx, engineCalls, runError, historic,
                 genVars, enumVars, viewVars, fieldVars>>

\* Lines 56-70: the historic parameters are validated and the check is
\* sent; changes is what the engine answers.
CheckSchema(changes) ==
  /\ runPc = "checkSchema"
  /\ LET historicParameters ==
           validateHistoricParams(flags.to, flags.from,
                                  flags.queryCountThreshold,
                                  flags.queryCountThresholdPercentage)
     IN  /\ historic' = <<historicParameters>>
         /\ IF historicParameters.threw # ""
            THEN /\ runError' = historicParameters.threw
                 /\ runPc' = "done"
                 /\ UNCHANGED <<ctx, engineCalls>>
            ELSE /\ engineCalls' =
                      Append(engineCalls,
                             [call |-> "checkSchema",
                              id |-> config.name,
                              schema |-> IntrospectionOf(ctx.schema[1]),
                              tag |-> flags.tag,
                              gitContext |-> ctx.gitContext[1],
                              frontend |-> OrElse(flags.frontend,
                                                  config.engine.frontend),
                              historicParameters |-> historicParameters])
                 /\ ctx' = [ctx EXCEPT
                             !.checkSchemaResult =
                               <<[targetUrl |-> "https://engine/check/1",
                                  diffToPrevious |-> [changes |-> changes]]>>]
                 /\ runPc' = "report"
                 /\ UNCHANGED runError
  /\ UNCHANGED <<config, flags, logged, exited, genVars, enumVars, viewVars,
                 fieldVars>>

\* Lines 76-98: the changes are reported.
Report ==
  /\ runPc = "report"
  /\ LET changes == ctx.checkSchemaResult[1].diffToPrevious.changes
         failures == SelectSeq(changes, LAMBDA change : change.type = "FAILURE")
     IN  IF Len(changes) = 0
         THEN /\ logged' =
                   Append(logged,
                          [op |-> "log",
                           text |-> "\nNo changes present between schemas\n"])
              /\ UNCHANGED exited
         ELSE /\ logged' =
                   logged
                   \o <<[op |-> "log", text |-> "\n"],
                        [op |-> "table",
                         rows |-> [i \in 1..Len(changes) |->
                                     [formatted |-> changes[i]]],
                         columns |-> <<"type", "code", "description">>],
                        [op |-> "log", text |-> "\n"]>>
              /\ exited' = (Len(failures) > 0)
  /\ runPc' = "done"
  /\ UNCHANGED <<config, flags, ctx, engineCalls, runError, historic,
                 genVars, enumVars, viewVars, fieldVars>>

\* validateHistoricParams called on its own.
ValidateParams ==
  /\ runPc = "validate"
  /\ historic' = <<validateHistoricParams(flags.to, flags.from,
                                          flags.queryCountThreshold,
                                          flags.queryCountThresholdPercentage)>>
  /\ runPc' = "done"
  /\ UNCHANGED <<config, flags, ctx, engineCalls, logged, runError, exited,
                 genVars, enumVars, viewVars, fieldVars>>

ChangeTypes == {"FAILURE", "WARNING", "NOTICE"}

Change(type) ==
  [type |-> type, code |-> "FIELD_REMOVED", description |-> "field removed"]

\* The lists of changes the engine can answer with.
ChangeLists ==
  UNION {{[i \in 1..n |-> Change(f[i])] : f \in [1..n -> ChangeTypes]} :
         n \in 0..MaxChanges}

Tags == {<<>>, <<"prod">>, <<"staging">>}

\* Values of the --to and --from flags: the defaults "-0" and "-86400",
\* "0", the empty string, integers of either sign, a fraction, padded and
\* zero-prefixed numerals and a word.
FlagStrings ==
  {<<"-", "0">>,
   <<"-", "8", "6", "4", "0", "0">>,
   <<"0">>,
   <<>>,
   <<"-", "1">>,
   <<"-", "2">>,
   <<"1">>,
   <<"-", "1", ".", "5">>,
   <<" ", "-", "1">>,
   <<"0", "0">>,
   <<"d", "a", "y">>}

NextCheck ==
  \/ TaskStart
  \/ ResolveSchema
  \/ GitInfo
  \/ \E changes \in ChangeLists : CheckSchema(changes)
  \/ Report

NextValidate == ValidateParams

\* The other layers at rest while one layer is exercised.
GenIdle ==
  /\ operations = <<>>
  /\ fragments = <<>>
  /\ typesUsed = <<>>
  /\ options = [namespace |-> "", generateOperationIds |-> FALSE]
  /\ outputIndividualFiles = FALSE
  /\ only = <<>>
  /\ output = <<>>
  /\ pc = 1
  /\ thrown = ""
  /\ returned = FALSE

EnumIdle ==
  /\ enumType = EnumA
  /\ lhs = <<>>
  /\ rhs = <<>>
  /\ decodedFrom = <<>>
  /\ rawOut = <<>>
  /\ equal = ""

ViewIdle ==
  /\ viewSel = BaseSelectionSet
  /\ viewDecl = EmittedStruct(viewSel)
  /\ resultMap = [key \in {"__typename"} |-> "Query"]
  /\ narrowed = [read |-> FALSE, variant |-> 0, result |-> <<>>]
  /\ builtBy = <<>>
  /\ fragRead = NoFragmentRead
  /\ assigned = NoAssignment

FieldIdle ==
  /\ fieldsUnderTest = <<>>
  /\ fieldMap = [key \in {"__typename"} |-> Str("Query")]
  /\ written = <<>>
  /\ readBack = [read |-> FALSE, field |-> 0, result |-> Null]

NoContext ==
  [tag |-> <<>>, schema |-> <<>>, gitContext |-> <<>>,
   checkSchemaResult |-> <<>>]

DefaultFlags ==
  [tag |-> <<>>,
   frontend |-> <<>>,
   from |-> <<"-", "8", "6", "4", "0", "0">>,
   to |-> <<"-", "0">>,
   queryCountThreshold |-> Intg(1),
   queryCountThresholdPercentage |-> Intg(0)]

CheckStart ==
  /\ ctx = NoContext
  /\ engineCalls = <<>>
  /\ logged = <<>>
  /\ runError = ""
  /\ exited = FALSE
  /\ historic = <<>>

CheckIdle ==
  /\ config = [name |-> <<>>, tag |-> <<>>,
               engine |-> [frontend |-> <<"https://engine">>]]
  /\ flags = DefaultFlags
  /\ runPc = "done"
  /\ CheckStart

GenStart ==
  /\ output = <<>>
  /\ pc = 1
  /\ thrown = ""
  /\ returned = FALSE

Init ==
  /\ operations \in RunOperations
  /\ fragments \in RunFragments
  /\ typesUsed = <<EnumA, InputA, ScalarA>>
  /\ options \in [namespace : {"", "StarWars"}, generateOperationIds : {FALSE}]
  /\ outputIndividualFiles \in BOOLEAN
  /\ only \in {<<>>} \cup FilePaths
  /\ GenStart
  /\ EnumIdle
  /\ ViewIdle
  /\ FieldIdle
  /\ CheckIdle

\* Contexts of one operation whose content varies: its variables, its
\* source and the fragments it references, or its selection set.
DetailFragments ==
  <<MkFragment(FragmentNames[1], <<"queries", "a.graphql">>,
               "fragment HeroDetails",
               MkSelectionSet(<<"Human", "Droid">>, <<ScalarField("name")>>,
                              <<<<"Droid">>>>)),
    MkFragment(FragmentNames[2], <<"queries", "b.graphql">>, "",
               BaseSelectionSet)>>

VariableLists ==
  UNION {{[i \in 1..n |-> [name |-> VariableNames[i], type |-> f[i]]] :
            f \in [1..n -> VariableTypes]} :
         n \in 0..MaxVariables}

DetailOperations ==
  LET name == OperationNames[1]
      path == <<"queries", "a.graphql">>
      refs == DistinctSeqs({FragmentNames[1], FragmentNames[2]}, 2)
  IN  UNION {
        {MkOperation(name, t, path, "query Hero", vs, <<>>, BaseSelectionSet) :
           vs \in VariableLists}
        \cup {MkOperation(name, t, path, src, <<>>, rs, BaseSelectionSet) :
                src \in {"", "query Hero"}, rs \in refs}
        \cup {MkOperation(name, t, path, "query Hero", <<>>, <<>>, sel) :
                sel \in SelectionSets(MaxDepth)}
        \cup {MkOperation(name, t, path, "query Hero", <<>>, <<>>,
                          SelectionSetWithoutProperties(sel)) :
                sel \in SelectionSets(0)} :
        t \in OperationTypes}

InitOperation ==
  /\ operations \in {<<op>> : op \in DetailOperations}
  /\ fragments = DetailFragments
  /\ typesUsed = <<EnumA, InputA, ScalarA>>
  /\ options \in [namespace : {"", "StarWars"}, generateOperationIds : BOOLEAN]
  /\ outputIndividualFiles \in BOOLEAN
  /\ only = <<>>
  /\ GenStart
  /\ EnumIdle
  /\ ViewIdle
  /\ FieldIdle
  /\ CheckIdle

InitEnum ==
  /\ enumType \in EnumTypes
  /\ lhs = <<>>
  /\ rhs = <<>>
  /\ decodedFrom = <<>>
  /\ rawOut = <<>>
  /\ equal = ""
  /\ GenIdle
  /\ ViewIdle
  /\ FieldIdle
  /\ CheckIdle

InitView ==
  /\ viewSel \in ViewSelectionSets
  /\ resultMap \in ResultMaps
  /\ narrowed = [read |-> FALSE, variant |-> 0, result |-> <<>>]
  /\ builtBy = <<>>
  /\ fragRead = NoFragmentRead
  /\ assigned = NoAssignment
  /\ GenIdle
  /\ EnumIdle
  /\ FieldIdle
  /\ CheckIdle
  /\ viewDecl = EmittedStruct(viewSel)

InitField ==
  /\ fieldsUnderTest \in {<<f, ScalarField("name")>> : f \in TestFields}
  /\ fieldMap = [key \in {"__typename"} |-> Str("Human")]
  /\ written = <<<<>>, <<>>>>
  /\ readBack = [read |-> FALSE, field |-> 0, result |-> Null]
  /\ GenIdle
  /\ EnumIdle
  /\ ViewIdle
  /\ CheckIdle

Next == GenerateSource

Spec == Init /\ [][Next]_vars

SpecOperation == InitOperation /\ [][Next]_vars

SpecEnum == InitEnum /\ [][NextEnum]_vars

SpecView == InitView /\ [][NextView]_vars

SpecField == InitField /\ [][NextField]_vars

InitCheck ==
  /\ config \in [name : {<<>>, <<"my-service">>},
                 tag : Tags,
                 engine : {[frontend |-> <<"https://engine">>]}]
  /\ flags \in [tag : Tags,
                frontend : {<<>>},
                from : {<<"-", "8", "6", "4", "0", "0">>, <<"0">>},
                to : {<<"-", "0">>, <<"1">>},
                queryCountThreshold : {Intg(1)},
                queryCountThresholdPercentage : {Intg(0), Intg(101)}]
  /\ runPc = "task"
  /\ CheckStart
  /\ GenIdle
  /\ EnumIdle
  /\ ViewIdle
  /\ FieldIdle

InitValidate ==
  /\ config = [name |-> <<"my-service">>, tag |-> <<>>,
               engine |-> [frontend |-> <<"https://engine">>]]
  /\ flags \in [tag : {<<>>},
                frontend : {<<>>},
                from : FlagStrings,
                to : FlagStrings,
                queryCountThreshold : {Intg(i) : i \in {0, 1, 2}},
                queryCountThresholdPercentage :
                  {Intg(i) : i \in {-1, 0, 5, 100, 101}}]
  /\ runPc = "validate"
  /\ CheckStart
  /\ GenIdle
  /\ EnumIdle
  /\ ViewIdle
  /\ FieldIdle

SpecCheck == InitCheck /\ [][NextCheck]_vars
SpecValidate == InitValidate /\ [][NextValidate]_vars

(***************************************************************************)
(* What a run hands to its caller, and how printed declarations relate to  *)
(* the entities of the context.                                            *)
(***************************************************************************)
SupportedKinds == {"query", "mutation", "subscription"}

\* The generator generateSource returned; a run that threw returned none.
Delivered == IF returned THEN output ELSE <<>>

IsDeclaration(e) == e.decl.kind \in {"enum", "struct", "class"}

DeclName(d) ==
  IF d.kind = "class" THEN d.className
  ELSE IF d.kind = "struct" THEN d.structName
  ELSE <<d.name>>

\* The printed entries that declare operation i, fragment j.
EntriesOfOperation(out, i) ==
  {k \in 1..Len(out) :
     /\ out[k].decl.kind = "class"
     /\ out[k].decl.className[1] = operations[i].operationName}

EntriesOfFragment(out, j) ==
  {k \in 1..Len(out) :
     /\ out[k].decl.kind = "struct"
     /\ out[k].decl.structName =
          structNameForFragmentName(fragments[j].fragmentName)}

\* The position in generateSourceCalls of the first call given an operation
\* of unsupported kind (0 if there is none).
FirstUnsupportedCall ==
  LET calls == generateSourceCalls
      bad == {k \in 1..Len(calls) :
                /\ calls[k].call = "operation"
                /\ operations[calls[k].index].operationType \notin SupportedKinds}
  IN  IF bad = {} THEN 0 ELSE CHOOSE k \in bad : \A m \in bad : k <= m

\* C3: an operation whose kind is not query, mutation or subscription makes
\* emission fail with 'Unsupported operation type', and the output handed to
\* the caller holds nothing of a document (input file) that contains such an
\* operation; every class it holds is the complete declaration of a supported
\* operation.  The run never passes over an unsupported operation.
C3_UnsupportedKindFailsWithoutPartialOutput ==
  /\ thrown # "" =>
       /\ thrown = UnsupportedOperationType
       /\ ~returned
       /\ FirstUnsupportedCall = pc
  /\ FirstUnsupportedCall # 0 => pc <= FirstUnsupportedCall /\ ~returned
  /\ \A k \in 1..Len(output) :
       output[k].decl.kind = "class" =>
         \E i \in 1..Len(operations) :
           /\ operations[i].operationType \in SupportedKinds
           /\ output[k].decl =
                classDeclarationForOperation(operations[i], outputIndividualFiles)
  /\ \A i \in 1..Len(operations) :
       operations[i].operationType \notin SupportedKinds =>
         /\ EntriesOfOperation(output, i) = {}
         /\ \A i2 \in 1..Len(operations) :
              operations[i2].filePath = operations[i].filePath =>
                EntriesOfOperation(Delivered, i2) = {}
         /\ \A j \in 1..Len(fragments) :
              fragments[j].filePath = operations[i].filePath =>
                EntriesOfFragment(Delivered, j) = {}

\* The run failed on an unsupported operation after it had printed the class
\* of another operation of the same input file.
C3_Witness ==
  /\ thrown = UnsupportedOperationType
  /\ \E k \in 1..Len(output) :
       /\ output[k].decl.kind = "class"
       /\ output[k].file = generateSourceCalls[pc].file

\* C4 as stated: when the run is over, every operation of supported kind and
\* every fragment (of an input file that is generated) has been emitted,
\* also when the context holds an operation of unsupported kind.
C4_OtherDocumentsStillEmitted ==
  (thrown # "" \/ returned) =>
    LET calls == generateSourceCalls
    IN  \A k \in 1..Len(calls) :
          /\ (calls[k].call = "operation"
              /\ operations[calls[k].index].operationType \in SupportedKinds)
               => EntriesOfOperation(output, calls[k].index) # {}
          /\ calls[k].call = "fragment"
               => EntriesOfFragment(output, calls[k].index) # {}

\* C4 amended: an operation of unsupported kind ends the whole run.  Once
\* generateSource has reached it, no generator is returned and nothing that
\* generateSource would print after it (no later operation, no fragment that
\* follows) is ever printed; what was printed before it stays in the
\* generator that is dropped.
C4_UnsupportedKindAbortsRun ==
  LET calls == generateSourceCalls
      bad == FirstUnsupportedCall
  IN  bad # 0 =>
        /\ ~returned
        /\ pc <= bad
        /\ Len(output) <= bad - 1
        /\ \A k \in bad..Len(calls) :
             /\ calls[k].call = "operation"
                  => EntriesOfOperation(output, calls[k].index) = {}
             /\ calls[k].call = "fragment"
                  => EntriesOfFragment(output, calls[k].index) = {}
        /\ thrown # "" => pc = bad

\* The run has thrown while a supported operation or a fragment was still to
\* be printed.
C4_Witness ==
  /\ thrown = UnsupportedOperationType
  /\ \E k \in (pc + 1)..Len(generateSourceCalls) :
       \/ generateSourceCalls[k].call = "fragment"
       \/ /\ generateSourceCalls[k].call = "operation"
          /\ operations[generateSourceCalls[k].index].operationType
               \in SupportedKinds

(***************************************************************************)
(* The declarations a complete run prints in a given output mode.          *)
(***************************************************************************)
ExpectedDecls(oif) ==
  UNION {Range(typeDeclarationForGraphQLType(typesUsed[i])) :
           i \in 1..Len(typesUsed)}
  \cup {classDeclarationForOperation(operations[i], oif) :
          i \in 1..Len(operations)}
  \cup UNION {Range(structDeclarationForFragment(fragments[j])) :
                j \in 1..Len(fragments)}

PrintedDecls == {output[k].decl : k \in {m \in 1..Len(output) : IsDeclaration(output[m])}}

EachDeclaredOnce ==
  \A k1, k2 \in 1..Len(output) :
    (/\ IsDeclaration(output[k1])
     /\ IsDeclaration(output[k2])
     /\ DeclName(output[k1].decl) = DeclName(output[k2].decl)) => k1 = k2

OperationOf(d) ==
  operations[CHOOSE i \in 1..Len(operations) :
               operations[i].operationName = d.className[1]]

FragmentOf(d) ==
  fragments[CHOOSE j \in 1..Len(fragments) :
              structNameForFragmentName(fragments[j].fragmentName) = d.structName]

StructsNamed(members, name) ==
  SelectSeq(members, LAMBDA m : m.kind = "struct" /\ m.structName = name)

IsVariantMember(m) ==
  \/ m.kind = "narrowing"
  \/ m.kind = "struct" /\ Head(m.structName) = "As"

CompositeFields(variant) ==
  SelectSeq(variant.fields,
            LAMBDA f : f.isComposite /\ f.selectionSet # <<>>)

\* decls is what was printed for selectionSet: one struct, the default
\* declaration; with no variants it holds no narrowing accessor and no
\* variant struct; otherwise it holds, in the order of the variants, one
\* accessor for each, each immediately followed by the struct of its variant
\* (which lists the variant's possible types and fields); and the selection
\* set of every composite field, of the default and of each variant, is
\* declared the same way, once, inside the struct of its owner.
RECURSIVE SelectionSetDeclared(_, _)
RECURSIVE FieldsDeclared(_, _)

FieldsDeclared(struct, variant) ==
  \A i \in 1..Len(CompositeFields(variant)) :
    LET f == CompositeFields(variant)[i]
    IN  SelectionSetDeclared(
          StructsNamed(struct.members, structNameForPropertyName(f.responseKey)),
          f.selectionSet[1])

SelectionSetDeclared(decls, selectionSet) ==
  /\ Len(decls) = 1
  /\ decls[1].kind = "struct"
  /\ LET members == decls[1].members
         variants == selectionSet.typeCase.variants
         n == Len(variants)
         variantMembers == SelectSeq(members, IsVariantMember)
     IN  /\ MembersOfKind(decls[1], "possibleTypes") =
              <<[kind |-> "possibleTypes", types |-> selectionSet.possibleTypes]>>
         /\ Len(variantMembers) = 2 * n
         /\ \A i \in 1..n :
              LET accessor == variantMembers[2 * i - 1]
                  struct == variantMembers[2 * i]
              IN  /\ accessor.kind = "narrowing"
                  /\ accessor.get.wrapStruct = structNameForVariant(variants[i])
                  /\ struct.kind = "struct"
                  /\ struct.structName = structNameForVariant(variants[i])
                  /\ MembersOfKind(struct, "possibleTypes") =
                       <<[kind |-> "possibleTypes",
                          types |-> variants[i].possibleTypes]>>
                  /\ [k \in 1..Len(MembersOfKind(struct, "property")) |->
                        MembersOfKind(struct, "property")[k].responseKey]
                     = [k \in 1..Len(variants[i].fields) |->
                          variants[i].fields[k].responseKey]
                  /\ FieldsDeclared(struct, variants[i])
         /\ \A p \in 1..Len(members) :
              members[p].kind = "narrowing" =>
                /\ p < Len(members)
                /\ members[p + 1].kind = "struct"
                /\ members[p + 1].structName = members[p].get.wrapStruct
         /\ FieldsDeclared(decls[1], selectionSet.typeCase.default)

\* C2: for every selection set printed (the Data struct of an operation, a
\* fragment's struct and, inside them, the struct of every composite field)
\* exactly one default declaration is printed, and nested in it, in the order
\* of typeCase.variants, one narrowing accessor immediately followed by one
\* struct per variant; none of either when typeCase.variants is empty.
C2_OneDefaultDeclarationThenAccessorAndStructPerVariant ==
  \A k \in 1..Len(output) :
    /\ output[k].decl.kind = "class" =>
         SelectionSetDeclared(
           SelectSeq(output[k].decl.members, LAMBDA m : m.kind = "struct"),
           OperationOf(output[k].decl).selectionSet)
    /\ (output[k].decl.kind = "struct"
        /\ Head(output[k].decl.structName) = "Fragment") =>
         SelectionSetDeclared(<<output[k].decl>>,
                              FragmentOf(output[k].decl).selectionSet)

\* An operation was printed whose selection set has two variants and a
\* composite field whose own selection set has a variant.
C2_Witness ==
  \E k \in 1..Len(output) :
    /\ output[k].decl.kind = "class"
    /\ LET sel == OperationOf(output[k].decl).selectionSet
       IN  /\ Len(sel.typeCase.variants) = 2
           /\ \E i \in 1..Len(sel.typeCase.default.fields) :
                LET f == sel.typeCase.default.fields[i]
                IN  /\ f.isComposite
                    /\ Len(f.selectionSet[1].typeCase.variants) >= 1

\* C8 as stated: one stored property and one initializer parameter per
\* variable, and the parameter defaults to nil exactly when the variable's
\* type is not NonNull at the outermost level ([T!] included).
C8_NullableVariablesDefaultToNil ==
  \A k \in 1..Len(output) :
    output[k].decl.kind = "class" =>
      LET variables == OperationOf(output[k].decl).variables
          stored == MembersOfKind(output[k].decl, "storedProperty")
          inits == MembersOfKind(output[k].decl, "init")
      IN  /\ Len(stored) = Len(variables)
          /\ Len(inits) = 1
          /\ Len(inits[1].parameters) = Len(variables)
          /\ \A i \in 1..Len(variables) :
               /\ stored[i].name = variables[i].name
               /\ inits[1].parameters[i].name = variables[i].name
               /\ inits[1].parameters[i].default = "nil"
                    <=> ~isNonNullType(variables[i].type)

\* C8 amended: one stored property and one initializer parameter per
\* variable; the parameter defaults to nil exactly when the variable's type
\* is neither NonNull nor a list whose element type is NonNull.  NonNull
\* variables and nullable lists of non-null elements ([T!]) get no default.
C8_DefaultNilUnlessNonNullOrListOfNonNull ==
  \A k \in 1..Len(output) :
    output[k].decl.kind = "class" =>
      LET variables == OperationOf(output[k].decl).variables
          stored == MembersOfKind(output[k].decl, "storedProperty")
          inits == MembersOfKind(output[k].decl, "init")
      IN  /\ Len(stored) = Len(variables)
          /\ Len(inits) = 1
          /\ Len(inits[1].parameters) = Len(variables)
          /\ \A i \in 1..Len(variables) :
               /\ stored[i].name = variables[i].name
               /\ inits[1].parameters[i].name = variables[i].name
               /\ inits[1].parameters[i].default = "nil"
                    <=> /\ variables[i].type.kind # "NonNull"
                        /\ ~(/\ variables[i].type.kind = "List"
                             /\ variables[i].type.ofType.kind = "NonNull")
               /\ inits[1].parameters[i].default \in {"nil", ""}

\* An operation with a variable of type [Int!] was printed, and its
\* parameter has no default.
C8_Witness ==
  \E k \in 1..Len(output) :
    /\ output[k].decl.kind = "class"
    /\ LET variables == OperationOf(output[k].decl).variables
           inits == MembersOfKind(output[k].decl, "init")
       IN  \E i \in 1..Len(variables) :
             /\ variables[i].type = ListOf(NonNullOf(Named("Int")))
             /\ inits[1].parameters[i].default = ""

\* C9 as stated: queryDocument is operationDefinition followed by the
\* fragmentDefinition of every fragment referenced, once each and in the
\* collector's order; it is not printed when no fragment is referenced; and
\* whenever it is printed the operationDefinition it names is printed too.
C9_QueryDocumentIsSourcePlusReferencedFragments ==
  \A k \in 1..Len(output) :
    output[k].decl.kind = "class" =>
      LET op == OperationOf(output[k].decl)
          refs == op.fragmentsReferenced
          queryDocument == MembersOfKind(output[k].decl, "queryDocument")
          definition == MembersOfKind(output[k].decl, "operationDefinition")
      IN  /\ refs = <<>> => queryDocument = <<>>
          /\ refs # <<>> =>
               /\ Len(queryDocument) = 1
               /\ queryDocument[1].base = "operationDefinition"
               /\ queryDocument[1].appending =
                    [i \in 1..Len(refs) |-> structNameForFragmentName(refs[i])]
          /\ queryDocument # <<>> =>
               definition = <<[kind |-> "operationDefinition",
                               source |-> op.source]>>

\* The declared raw strings and cases of the exercised enum.
DeclaredRaw == {enumType.values[i].value : i \in 1..Len(enumType.values)}

CaseOfRaw(s) ==
  enumDotCaseName(
    enumType.values[CHOOSE i \in 1..Len(enumType.values) :
                      enumType.values[i].value = s].name)

\* C5: decoding a raw string never fails; a declared string gives its known
\* case and any other string gives __unknown carrying it; encoding the decoded
\* value gives the string back, and decoding the encoding of a known case
\* gives the same case.
C5_EnumRoundTrip ==
  /\ decodedFrom # <<>> =>
       /\ lhs # <<>>
       /\ decodedFrom[1] \in DeclaredRaw =>
            lhs[1] = KnownCase(CaseOfRaw(decodedFrom[1]))
       /\ decodedFrom[1] \notin DeclaredRaw =>
            lhs[1] = UnknownCase(decodedFrom[1])
       /\ rawOut # <<>> => rawOut[1] = decodedFrom[1]
  /\ (lhs # <<>> /\ rawOut # <<>>) =>
       (lhs[1].tag = "case" =>
          /\ rawOut[1] \in DeclaredRaw
          /\ EnumInitRawValue(enumerationDeclaration(enumType), rawOut[1]) = lhs)

C5_Witness ==
  /\ decodedFrom = <<"FUTURE_VALUE">>
  /\ lhs = <<UnknownCase("FUTURE_VALUE")>>
  /\ rawOut = <<"FUTURE_VALUE">>
  /\ Len(enumType.values) >= 1

C5_WitnessKnown ==
  /\ decodedFrom # <<>>
  /\ decodedFrom[1] \in DeclaredRaw
  /\ rawOut = decodedFrom

\* C6: two values are equal exactly when both are the same known case or both
\* are unknown with the same raw string; a known case and an unknown value are
\* never equal, even when the unknown value carries that case's raw string.
C6_EnumEquality ==
  equal # "" =>
    LET l == lhs[1]
        r == rhs[1]
    IN  /\ (l.tag = "case" /\ r.tag = "case") =>
             (equal = "true" <=> l.name = r.name)
        /\ (l.tag = "__unknown" /\ r.tag = "__unknown") =>
             (equal = "true" <=> l.raw = r.raw)
        /\ l.tag # r.tag => equal = "false"

C6_Witness ==
  /\ equal = "false"
  /\ lhs # <<>> /\ lhs[1].tag = "case"
  /\ rhs # <<>> /\ rhs[1].tag = "__unknown"
  /\ rawOut = <<rhs[1].raw>>

\* C1: reading the narrowing accessor for variant V gives a V view over the
\* same container when the container's __typename is one of V's possible
\* types, and nil in every other case.
C1_NarrowingAccessorIffPossibleType ==
  narrowed.read =>
    LET V == viewSel.typeCase.variants[narrowed.variant]
    IN  IF Contains(V.possibleTypes, resultMap["__typename"])
        THEN narrowed.result =
               <<[struct |-> structNameForVariant(V), resultMap |-> resultMap]>>
        ELSE narrowed.result = <<>>

C1_Witness ==
  /\ narrowed.read
  /\ narrowed.variant = 2
  /\ narrowed.result # <<>>
  /\ resultMap["__typename"] = "Wookiee"
  /\ Len(viewSel.typeCase.variants[2].possibleTypes) = 2

C1_WitnessNil ==
  /\ narrowed.read
  /\ narrowed.result = <<>>
  /\ Contains(viewSel.possibleTypes, resultMap["__typename"])

\* The output files something was written to.
FilesWritten == {output[k].file : k \in 1..Len(output)}

\* C11 as stated: in per-file mode with only given, the file of the input
\* path equal to only is the only output file written; with only absent there
\* is one output file per input file path.
C11_OnlyTheNamedFileIsWritten ==
  (returned /\ outputIndividualFiles) =>
    IF only # <<>>
    THEN FilesWritten \subseteq {SwiftFile(only)}
    ELSE \A p \in Range(inputFilePaths) : SwiftFile(p) \in FilesWritten

\* What generateSource does in per-file mode (C11): the types file is written
\* in every run; besides it, exactly the files of the input paths that only does not exclude are
\* written (all of them when only is absent, none when only names no input
\* path).
C11_TypesFileAndTheNamedFileAreWritten ==
  outputIndividualFiles =>
    LET kept == {p \in Range(inputFilePaths) : only = <<>> \/ p = only}
    IN  /\ FilesWritten \subseteq {TypesFile} \cup {SwiftFile(p) : p \in kept}
        /\ returned =>
             FilesWritten = {TypesFile} \cup {SwiftFile(p) : p \in kept}

C11_Witness ==
  /\ returned
  /\ outputIndividualFiles
  /\ only = <<"queries", "a.graphql">>
  /\ Len(inputFilePaths) = 2
  /\ FilesWritten = {TypesFile, SwiftFile(only)}

\* The operations with their derived identifier blanked.
WithoutOperationId(ops) ==
  [i \in 1..Len(ops) |-> [ops[i] EXCEPT !.operationId = <<>>]]

\* The classes printed so far for the operation named name.
ClassesOf(name) ==
  SelectSeq([k \in 1..Len(output) |-> output[k].decl],
            LAMBDA d : d.kind = "class" /\ d.className[1] = name)

\* C12: no step of generateSource changes an operation, a fragment or a type
\* other than in operation.operationId; an operation's operationId is set,
\* to what generateOperationId returns for it and its referenced fragments,
\* exactly when its class was printed with generateOperationIds enabled, and
\* the class then and only then has an operationIdentifier.
C12_OnlyOperationIdIsDerived ==
  /\ [][/\ WithoutOperationId(operations') = WithoutOperationId(operations)
        /\ fragments' = fragments
        /\ typesUsed' = typesUsed
        /\ options' = options]_vars
  /\ [](\A i \in 1..Len(operations) :
          LET op == operations[i]
              classes == ClassesOf(op.operationName)
              printed == classes # <<>>
          IN  /\ op.operationId # <<>> <=>
                   (printed /\ options.generateOperationIds)
              /\ op.operationId # <<>> =>
                   op.operationId =
                     <<generateOperationId(op, op.fragmentsReferenced)>>
              /\ \A k \in 1..Len(classes) :
                   LET ids == MembersOfKind(classes[k], "operationIdentifier")
                   IN  IF options.generateOperationIds
                       THEN ids = <<[kind |-> "operationIdentifier",
                                     id |-> op.operationId[1]]>>
                       ELSE ids = <<>>)

C12_Witness ==
  /\ returned
  /\ options.generateOperationIds
  /\ Len(operations) = 1
  /\ operations[1].fragmentsReferenced # <<>>
  /\ operations[1].operationId # <<>>
  /\ MembersOfKind(ClassesOf(operations[1].operationName)[1],
                   "operationIdentifier") # <<>>

\* C13: every emitted field accessor reads and writes the container under
\* the field's responseKey, and reading a field after a value was assigned to
\* it gives that value back, whatever list and nullable layers the field's
\* type has (nil included).
C13_FieldAccessorRoundTrip ==
  /\ \A i \in 1..Len(FieldDecls) :
       /\ FieldDecls[i].get.key = fieldsUnderTest[i].responseKey
       /\ FieldDecls[i].set.key = fieldsUnderTest[i].responseKey
       /\ written[i] # <<>> => fieldsUnderTest[i].responseKey \in DOMAIN fieldMap
  /\ (readBack.read /\ written[readBack.field] # <<>>) =>
       readBack.result = written[readBack.field][1]

C13_Witness ==
  /\ readBack.read
  /\ readBack.field = 1
  /\ fieldsUnderTest[1].type = ListOf(Named("Character"))
  /\ written[1] # <<>>
  /\ written[2] # <<>>
  /\ readBack.result.t = "list"
  /\ Len(readBack.result.v) = 2
  /\ readBack.result.v[1] = Null
  /\ readBack.result.v[2].t = "struct"

C13_WitnessNil ==
  /\ readBack.read
  /\ readBack.field = 1
  /\ fieldsUnderTest[1].isComposite
  /\ written[1] = <<Null>>
  /\ readBack.result = Null

\* The Data struct printed in the class d.
DataStruct(d) == StructsNamed(d.members, <<"Data">>)[1]

\* The names of the factories and the number of plain initializers of the
\* struct d.
FactoryNames(d) ==
  [i \in 1..Len(MembersOfKind(d, "factory")) |->
     MembersOfKind(d, "factory")[i].name]

\* make<T> for the types of the variants vs, in order.
MakeNames(vs) ==
  Concat([k \in 1..Len(vs) |->
            [j \in 1..Len(vs[k].possibleTypes) |->
               <<"make", vs[k].possibleTypes[j]>>]])

\* C14 as stated: with variants, the default struct has exactly one make<T>
\* per concrete type of the selection set, remainder types first, then the
\* variants' types in order; without variants it has a plain initializer
\* when there is one possible type and one make<T> per possible type
\* otherwise.
C14_OneFactoryPerConcreteType ==
  \A k \in 1..Len(output) :
    output[k].decl.kind = "class" =>
      LET tc == OperationOf(output[k].decl).selectionSet.typeCase
          pt == OperationOf(output[k].decl).selectionSet.possibleTypes
          D == DataStruct(output[k].decl)
          inits == MembersOfKind(D, "initializer")
      IN  IF Len(tc.variants) > 0
          THEN /\ inits = <<>>
               /\ FactoryNames(D) = MakeNames(tc.remainder \o tc.variants)
               /\ \A t \in Range(pt) :
                    Len(SelectSeq(FactoryNames(D),
                                  LAMBDA n : n = <<"make", t>>)) = 1
          ELSE IF Len(pt) = 1
               THEN Len(inits) = 1 /\ FactoryNames(D) = <<>>
               ELSE inits = <<>> /\ FactoryNames(D) = MakeNames(<<tc.default>>)

\* C14 amended: the initializers are those of the variants for which
\* propertiesForSelectionSet returns properties; the others get none.
C14_OneFactoryPerConcreteTypeWithProperties ==
  \A k \in 1..Len(output) :
    output[k].decl.kind = "class" =>
      LET tc == OperationOf(output[k].decl).selectionSet.typeCase
          pt == OperationOf(output[k].decl).selectionSet.possibleTypes
          D == DataStruct(output[k].decl)
          inits == MembersOfKind(D, "initializer")
          WithProperties(vs) == SelectSeq(vs, LAMBDA v : v.properties # <<>>)
      IN  IF Len(tc.variants) > 0
          THEN /\ inits = <<>>
               /\ FactoryNames(D) =
                    MakeNames(WithProperties(tc.remainder \o tc.variants))
               /\ \A t \in Range(pt) :
                    Len(SelectSeq(FactoryNames(D),
                                  LAMBDA n : n = <<"make", t>>)) <= 1
               /\ (\A i \in 1..Len(tc.variants) :
                      tc.variants[i].properties # <<>>)
                  /\ (\A i \in 1..Len(tc.remainder) :
                        tc.remainder[i].properties # <<>>)
                  => \A t \in Range(pt) : <<"make", t>> \in Range(FactoryNames(D))
          ELSE IF Len(pt) = 1
               THEN /\ Len(inits) = Len(WithProperties(<<tc.default>>))
                    /\ FactoryNames(D) = <<>>
               ELSE /\ inits = <<>>
                    /\ FactoryNames(D) = MakeNames(WithProperties(<<tc.default>>))

C14_Witness ==
  \E k \in 1..Len(output) :
    /\ output[k].decl.kind = "class"
    /\ LET tc == OperationOf(output[k].decl).selectionSet.typeCase
       IN  /\ Len(tc.variants) = 1
           /\ Len(tc.remainder) = 1
           /\ FactoryNames(DataStruct(output[k].decl)) =
                <<<<"make", "Human">>, <<"make", "Droid">>>>

\* C15: a container built by an emitted initializer or make<T> factory has
\* under "__typename" a type of the possibleTypes of the struct the
\* initializer is declared in (T itself for make<T>); and on a value built by
\* a factory of the default struct, the narrowing accessor of variant V gives
\* a value exactly when that type is one of V's possible types.
C15_BuiltContainersCarryAPossibleType ==
  builtBy # <<>> =>
    LET b == builtBy[1]
        T == resultMap["__typename"]
    IN  /\ T \in PossibleTypesOf(ResolveStruct(ViewStruct, b.struct))
        /\ b.name[1] = "make" => b.name = <<"make", T>>
        /\ b.returns = b.struct
        /\ (narrowed.read /\ b.struct = ViewStruct.structName) =>
             (narrowed.result # <<>> <=>
                Contains(viewSel.typeCase.variants[narrowed.variant].possibleTypes,
                         T))

C15_Witness ==
  /\ builtBy # <<>>
  /\ builtBy[1].struct = ViewStruct.structName
  /\ builtBy[1].name = <<"make", "Wookiee">>
  /\ Len(viewSel.typeCase.variants) = 2
  /\ narrowed.read
  /\ narrowed.variant = 2
  /\ narrowed.result # <<>>

C15_WitnessVariantStruct ==
  /\ builtBy # <<>>
  /\ builtBy[1].struct # ViewStruct.structName
  /\ builtBy[1].name = <<"init">>

\* The variant the i-th struct of the emitted declaration was emitted for:
\* the default variant, then the type case's variants.
VariantOfStruct(i) ==
  IF i = 1 THEN viewSel.typeCase.default ELSE viewSel.typeCase.variants[i - 1]

\* The possible types of the fragment the accessor views the container as.
FragmentTypesOf(accessor) ==
  LET i == CHOOSE i \in 1..Len(ViewFragments) :
             structNameForFragmentName(ViewFragments[i].fragmentName)
               = accessor.structName
  IN  Range(ViewFragments[i].selectionSet.possibleTypes)

\* C16: an accessor of a variant's Fragments struct has the nil guard (is
\* conditional) iff some possible type of the variant is not a possible type
\* of the spread fragment; a conditional accessor gives nil iff the
\* container's __typename is not a possible type of the fragment; and on a
\* container whose __typename is a possible type of the variant, no accessor
\* gives a fragment view when the __typename is not a possible type of the
\* fragment.
C16_FragmentAccessorConditionalIffNarrower ==
  /\ \A i \in 1..Len(StructsWithin(ViewStruct)) :
       LET accessors == FragmentAccessors(StructsWithin(ViewStruct)[i])
           variant == VariantOfStruct(i)
       IN  /\ Len(accessors) = Len(variant.fragmentSpreads)
           /\ \A k \in 1..Len(accessors) :
                /\ accessors[k].propertyName
                     = variant.fragmentSpreads[k].fragmentName
                /\ accessors[k].get.guardStruct # <<>>
                     <=> \E t \in Range(variant.possibleTypes) :
                           t \notin Range(variant.fragmentSpreads[k]
                                            .selectionSet.possibleTypes)
                /\ accessors[k].set.onNil = "return"
                     <=> accessors[k].get.guardStruct # <<>>
  /\ fragRead.read =>
       LET accessor ==
             FragmentAccessors(StructsWithin(ViewStruct)[fragRead.struct])
               [fragRead.accessor]
           T == resultMap["__typename"]
       IN  /\ accessor.get.guardStruct # <<>> =>
                (fragRead.result = <<>> <=> T \notin FragmentTypesOf(accessor))
           /\ fragRead.result # <<>> =>
                /\ T \in FragmentTypesOf(accessor)
                /\ fragRead.result[1].struct = accessor.structName
                /\ fragRead.result[1].resultMap = resultMap

\* A conditional accessor read on a container of a type outside the
\* fragment's possible types.
C16_Witness ==
  /\ fragRead.read
  /\ fragRead.struct = 1
  /\ FragmentAccessors(ViewStruct)[fragRead.accessor].get.guardStruct # <<>>
  /\ resultMap["__typename"] = "Wookiee"
  /\ fragRead.result = <<>>

\* An unconditional accessor read on a variant's struct.
C16_WitnessUnconditional ==
  /\ fragRead.read
  /\ fragRead.struct > 1
  /\ FragmentAccessors(StructsWithin(ViewStruct)[fragRead.struct])
       [fragRead.accessor].get.guardStruct = <<>>
  /\ fragRead.result # <<>>

\* The keys of the container before the last assignment that the assigned
\* value does not define are still there, with their values.
KeepsOtherKeys ==
  \A key \in DOMAIN assigned.before \ DOMAIN assigned.value[1].resultMap :
    /\ key \in DOMAIN resultMap
    /\ resultMap[key] = assigned.before[key]

\* The keys the assigned value defines have the value's entries.
TakesValueKeys ==
  \A key \in DOMAIN assigned.value[1].resultMap :
    /\ key \in DOMAIN resultMap
    /\ resultMap[key] = assigned.value[1].resultMap[key]

\* C17 as stated: assigning nil to a narrowing accessor or to a conditional
\* fragment accessor leaves the container unchanged, and assigning a value
\* to a fragment accessor or to a narrowing accessor keeps every key of the
\* container that the value does not define.
C17_AssignmentKeepsOtherKeys ==
  assigned.done =>
    IF assigned.value = <<>> THEN resultMap = assigned.before
    ELSE KeepsOtherKeys

\* C17, amended: assigning nil to a narrowing accessor or to a conditional
\* fragment accessor leaves the container unchanged; assigning a value to a
\* fragment accessor merges the value's container into the container,
\* keeping every key the value does not define; assigning a value to a
\* narrowing accessor replaces the container by the value's container.
C17_FragmentAssignmentMergesNarrowingReplaces ==
  assigned.done =>
    IF assigned.value = <<>> THEN resultMap = assigned.before
    ELSE IF assigned.kind = "fragment"
         THEN KeepsOtherKeys /\ TakesValueKeys
         ELSE resultMap = assigned.value[1].resultMap

\* A value without primaryFunction assigned to a narrowing accessor of a
\* container that had it.
C17_Witness ==
  /\ assigned.done
  /\ assigned.kind = "narrowing"
  /\ assigned.value # <<>>
  /\ "primaryFunction" \in DOMAIN assigned.before
  /\ "primaryFunction" \notin DOMAIN assigned.value[1].resultMap
  /\ "primaryFunction" \notin DOMAIN resultMap

\* The same value assigned to a fragment accessor.
C17_WitnessFragment ==
  /\ assigned.done
  /\ assigned.kind = "fragment"
  /\ assigned.value # <<>>
  /\ "primaryFunction" \in DOMAIN assigned.before
  /\ "primaryFunction" \notin DOMAIN assigned.value[1].resultMap
  /\ assigned.value[1].resultMap["name"] # assigned.before["name"]
  /\ "primaryFunction" \in DOMAIN resultMap

\* nil assigned to a conditional fragment accessor.
C17_WitnessNil ==
  /\ assigned.done
  /\ assigned.kind = "fragment"
  /\ assigned.value = <<>>

\* The integer a flag string names, <<>> when it names none.
IntegerNamedBy(str) ==
  CASE str = <<"-", "0">> -> <<0>>
    [] str = <<"-", "8", "6", "4", "0", "0">> -> <<-86400>>
    [] str = <<"0">> -> <<0>>
    [] str = <<>> -> <<0>>
    [] str = <<"-", "1">> -> <<-1>>
    [] str = <<"-", "2">> -> <<-2>>
    [] str = <<"1">> -> <<1>>
    [] str = <<" ", "-", "1">> -> <<-1>>
    [] str = <<"0", "0">> -> <<0>>
    [] OTHER -> <<>>

\* The integer a whole number is.
IntegerOf(x) == Scaled(x, x.exp) \div Pow10(x.exp)

C18_WitnessFirstError ==
  /\ historic # <<>>
  /\ historic[1].threw = ToError
  /\ flags.to = <<"1">>
  /\ flags.from = <<"d", "a", "y">>
  /\ flags.queryCountThreshold = Intg(0)
  /\ flags.queryCountThresholdPercentage = Intg(101)

\* The changes the engine answered with, once the check has completed.
ReturnedChanges == ctx.checkSchemaResult[1].diffToPrevious.changes

Tabulated == \E i \in 1..Len(logged) : logged[i].op = "table"

\* The status the command ends with after a completed check: this.exit()
\* ends it with a failing status (line 94), a return from run does not.
ExitStatus == IF exited THEN "failing" ELSE "ok"

C19_WitnessNoChanges ==
  /\ runPc = "done"
  /\ ctx.checkSchemaResult # <<>>
  /\ ReturnedChanges = <<>>
  /\ ~exited

\* A check with a notice only has printed the table and returned.
C19_WitnessNoFailure ==
  /\ runPc = "done"
  /\ ctx.checkSchemaResult # <<>>
  /\ Len(ReturnedChanges) = 1
  /\ ReturnedChanges[1].type = "NOTICE"
  /\ Tabulated
  /\ ~exited

\* The calls of the run of the given kind, in order.
CallsOf(kind) == SelectSeq(engineCalls, LAMBDA c : c.call = kind)

\* C20: the tag sent to engine.checkSchema is the tag the schema was
\* resolved with, flags.tag, else config.tag, else "current"; and without
\* config.name the run fails before any call is made.
C20_CheckedTagIsResolvedTag ==
  /\ \A i \in 1..Len(CallsOf("checkSchema")) :
       /\ Len(CallsOf("resolveSchema")) = 1
       /\ CallsOf("checkSchema")[i].tag = CallsOf("resolveSchema")[1].tag
       /\ CallsOf("checkSchema")[i].tag
            = (IF flags.tag # <<>> THEN flags.tag
               ELSE IF config.tag # <<>> THEN config.tag
               ELSE <<"current">>)
  /\ config.name = <<>> =>
       /\ engineCalls = <<>>
       /\ runPc = "done" => runError = "No service found to link to Engine"

\* What holds of the tags: the schema is resolved with flags.tag, else
\* config.tag, else "current", and the check is sent with flags.tag as it
\* is.
C20_CheckedTagIsTheFlag ==
  /\ \A i \in 1..Len(CallsOf("resolveSchema")) :
       CallsOf("resolveSchema")[i].tag
         = (IF flags.tag # <<>> THEN flags.tag
            ELSE IF config.tag # <<>> THEN config.tag
            ELSE <<"current">>)
  /\ \A i \in 1..Len(CallsOf("checkSchema")) :
       CallsOf("checkSchema")[i].tag = flags.tag
  /\ config.name = <<>> =>
       /\ engineCalls = <<>>
       /\ runPc = "done" => runError = "No service found to link to Engine"

====
